---- MODULE Spec2Model ----
(***************************************************************************)
(* Prefab writer (src/prefab/mod.rs, write_to_world) and prefab spawner    *)
(* (src/prefab/spawner.rs, PrefabSpawner) of bevy_nursery.                 *)
(*                                                                         *)
(* A live record is a bevy Entity; it is modelled by a natural number that *)
(* World::spawn_empty hands out from a counter, so an identity is never    *)
(* handed out twice.  A prefab-local id (u32) becomes the key              *)
(* Entity::from_raw(id) of the EntityMap, so local ids and live identities *)
(* are numbers of the same kind.                                           *)
(***************************************************************************)
EXTENDS Integers, Sequences, FiniteSets, TLC

\* ------------------------------------------------------------------ bounds
\* prefab entities carry the local ids 1..MaxLocalId; a patch entity may also
\* carry MaxLocalId + 1, which no prefab entity has
MaxLocalId == 2
\* direct write_to_world calls in one behaviour
MaxWrites == 2

LocalIds == 1..MaxLocalId
PatchIds == 1..(MaxLocalId + 1)

\* ------------------------------------------------------- reflected values
\* A Box<dyn Reflect> struct value: its type name and its named fields.
Value(t, f) == [type |-> t, fields |-> f]

TypeNames == {"Position", "Parent", "Proxy", "Bare", "Ghost"}

\* The AppTypeRegistry the writer reads: which type names are registered and
\* which type data each registration carries.
TypeRegistry ==
  [t \in TypeNames |->
     [registered       |-> t # "Ghost",
      prefab_component |-> t = "Proxy",
      component        |-> t \in {"Position", "Parent"},
      map_entities     |-> t \in {"Parent", "Proxy"}]]

\* FromWorld value a PrefabComponent proxy starts from before the reflected
\* value is applied onto it.
ProxyDefault == Value("Proxy", [entity |-> 0, y |-> 0])

\* `let x = v;` followed by the statements F: v is evaluated once and the
\* statements run on its value.
Then(v, F(_)) == CHOOSE r \in {F(x) : x \in {v}} : TRUE

Put(f, k, v) == [x \in DOMAIN f \cup {k} |-> IF x = k THEN v ELSE f[x]]

EmptyMap == [x \in {} |-> 0]

\* Reflect::apply for structs: every field of `value` that `self` also has
\* is copied onto self, the other fields of self stay.
ReflectApply(self, value) ==
  [type |-> self.type,
   fields |-> [f \in DOMAIN self.fields |->
                 IF f \in DOMAIN value.fields THEN value.fields[f]
                 ELSE self.fields[f]]]

\* ------------------------------------------------------------------ world
\* world.next: the next identity spawn_empty returns; world.ents: the live
\* records, each a map from type name to the attached value.
EmptyWorld == [next |-> 0, ents |-> EmptyMap]

SpawnEmpty(w) == [next |-> w.next + 1, ents |-> Put(w.ents, w.next, EmptyMap)]

Alive(w) == DOMAIN w.ents

Despawn(w, e) == [w EXCEPT !.ents = [x \in DOMAIN w.ents \ {e} |-> w.ents[x]]]

Insert(w, e, v) == [w EXCEPT !.ents[e] = Put(w.ents[e], v.type, v)]

\* ReflectComponent::apply_or_insert
ApplyOrInsert(w, e, component) ==
  IF component.type \in DOMAIN w.ents[e]
  THEN Insert(w, e, ReflectApply(w.ents[e][component.type], component))
  ELSE Insert(w, e, component)

\* ReflectPrefabComponent::apply_insert: a default proxy, the reflected value
\* applied onto it, then the proxy inserts itself.
ApplyInsert(w, e, component) ==
  Insert(w, e, ReflectApply(ProxyDefault, component))

\* --------------------------------------------------------- write_to_world
Ok == [kind |-> "Ok", name |-> ""]
Err(k, n) == [kind |-> k, name |-> n]

\* patch.modify.iter().map(|e| (e.entity, e)).collect(): one entry per local
\* id; of several PatchEntity with the same id the last one stays.
PatchMap(patch) ==
  LET m == patch.modify
      ids == {m[i].entity : i \in DOMAIN m}
      last(id) == CHOOSE i \in DOMAIN m :
                    /\ m[i].entity = id
                    /\ \A j \in DOMAIN m : m[j].entity = id => j <= i
  IN [id \in ids |-> m[last(id)]]

RemoveKey(f, k) == [x \in DOMAIN f \ {k} |-> f[x]]

\* mutant: spawns a record whether or not the map has an entry
ResolveEntityAlwaysSpawns(st, id) ==
  [st EXCEPT !.world = SpawnEmpty(st.world),
             !.entity_map = Put(st.entity_map, id, st.world.next)]

\* entity_map.entry(Entity::from_raw(id)).or_insert_with(|| world.spawn_empty().id())
ResolveEntity(st, id) ==
  IF id \in DOMAIN st.entity_map THEN st
  ELSE [st EXCEPT !.world = SpawnEmpty(st.world),
                  !.entity_map = Put(st.entity_map, id, st.world.next)]

\* scene_mappings.entry(type).or_insert(Vec::new()).push(entity)
TrackMapping(sm, t, e) ==
  Put(sm, t, (IF t \in DOMAIN sm THEN sm[t] ELSE <<>>) \o <<e>>)

\* mutant: the patched clone is dropped and the unpatched value written
PatchFieldsDiscarded(component, modify) == component

\* The clone with every (path, value) of the patch's modify entry applied.
PatchFields(component, modify) ==
  [component EXCEPT !.fields =
     [f \in DOMAIN component.fields |->
        IF f \in DOMAIN modify THEN modify[f] ELSE component.fields[f]]]

\* reflect_path_mut(path) is Ok for every path of the modify entry.
PathsResolve(component, modify) == DOMAIN modify \subseteq DOMAIN component.fields

\* Registration lookup and attach of one component of a prefab entity
\* (first loop).
InsertComponent(st, e, component) ==
  LET t == component.type
      reg == TypeRegistry[t]
  IN IF ~reg.registered THEN [st EXCEPT !.err = Err("UnregisteredType", t)]
     ELSE IF reg.prefab_component
     THEN [st EXCEPT !.world = ApplyInsert(st.world, e, component)]
     ELSE IF ~reg.component
     THEN [st EXCEPT !.err = Err("UnregisteredComponent", t)]
     ELSE [st EXCEPT
             !.scene_mappings = IF reg.map_entities THEN TrackMapping(@, t, e) ELSE @,
             !.world = ApplyOrInsert(st.world, e, component)]

\* mutant: the modify entry is looked at before the remove set
WriteComponentModifyFirst(st, e, component, p) ==
  LET t == component.type
  IN IF p # <<>> /\ t \in DOMAIN p[1].modify
     THEN IF PathsResolve(component, p[1].modify[t])
          THEN InsertComponent(st, e, PatchFields(component, p[1].modify[t]))
          ELSE [st EXCEPT !.err = Err("PatchContainsWrongPath", t)]
     ELSE IF p # <<>> /\ t \in p[1].remove THEN st
     ELSE InsertComponent(st, e, component)

\* One iteration of the component loop of a prefab entity; p is the Option of
\* the matching patch entity (<<>> or <<patch>>).
WriteComponent(st, e, component, p) ==
  LET t == component.type
  IN IF p # <<>> /\ t \in p[1].remove THEN st
     ELSE IF p # <<>> /\ t \in DOMAIN p[1].modify
     THEN IF PathsResolve(component, p[1].modify[t])
          THEN InsertComponent(st, e, PatchFields(component, p[1].modify[t]))
          ELSE [st EXCEPT !.err = Err("PatchContainsWrongPath", t)]
     ELSE InsertComponent(st, e, component)

RECURSIVE WriteComponents(_, _, _, _)
WriteComponents(st, e, components, p) ==
  IF components = <<>> \/ st.err # Ok THEN st
  ELSE Then(WriteComponent(st, e, Head(components), p),
            LAMBDA s : WriteComponents(s, e, Tail(components), p))

\* One iteration of the loop over prefab.entities.
WriteEntity(st, patch, prefab_entity) ==
  LET id == prefab_entity.entity IN
  IF id \in patch.ignore THEN st
  ELSE LET st1 == ResolveEntity(st, id)
           p == IF id \in DOMAIN st.patch_map THEN <<st.patch_map[id]>> ELSE <<>>
           st2 == [st1 EXCEPT !.patch_map = RemoveKey(@, id)]
           components == prefab_entity.components \o
                           (IF p = <<>> THEN <<>> ELSE p[1].append)
       IN Then(st2, LAMBDA s : WriteComponents(s, s.entity_map[id], components, p))

\* mutant: the loop goes on to the next entity after an error
RECURSIVE WriteEntitiesNoStop(_, _, _)
WriteEntitiesNoStop(st, patch, entities) ==
  IF entities = <<>> THEN st
  ELSE Then(WriteEntity(st, patch, Head(entities)),
            LAMBDA s : WriteEntitiesNoStop(s, patch, Tail(entities)))

RECURSIVE WriteEntities(_, _, _)
WriteEntities(st, patch, entities) ==
  IF entities = <<>> \/ st.err # Ok THEN st
  ELSE Then(WriteEntity(st, patch, Head(entities)),
            LAMBDA s : WriteEntities(s, patch, Tail(entities)))

\* Registration lookup and attach of one appended component of a patch entity
\* that was left in patch_map (second loop).
InsertAppended(st, e, component) ==
  LET t == component.type
      reg == TypeRegistry[t]
  IN IF ~reg.registered THEN [st EXCEPT !.err = Err("UnregisteredType", t)]
     ELSE IF reg.prefab_component
     THEN [st EXCEPT !.world = ApplyInsert(st.world, e, component)]
     ELSE IF ~reg.component
     THEN [st EXCEPT !.err = Err("UnregisteredComponent", t)]
     ELSE [st EXCEPT
             !.scene_mappings = IF reg.map_entities THEN TrackMapping(@, t, e) ELSE @,
             !.world = ApplyOrInsert(st.world, e, component)]

RECURSIVE WriteAppended(_, _, _)
WriteAppended(st, e, components) ==
  IF components = <<>> \/ st.err # Ok THEN st
  ELSE Then(InsertAppended(st, e, Head(components)),
            LAMBDA s : WriteAppended(s, e, Tail(components)))

\* mutant: the remove set of an unmatched patch entity filters its append list
WritePatchEntityHonorsRemove(st, p) ==
  Then(ResolveEntity(st, p.entity),
       LAMBDA s : WriteAppended(s, s.entity_map[p.entity],
                                SelectSeq(p.append, LAMBDA v : v.type \notin p.remove)))

\* One iteration of the loop over patch_map.into_values().
WritePatchEntity(st, p) ==
  Then(ResolveEntity(st, p.entity),
       LAMBDA s : WriteAppended(s, s.entity_map[p.entity], p.append))

\* The loop over patch_map.into_values(); order is the order in which the
\* HashMap yields the remaining local ids.
RECURSIVE WritePatchEntities(_, _)
WritePatchEntities(st, order) ==
  IF order = <<>> \/ st.err # Ok THEN st
  ELSE Then(WritePatchEntity(st, st.patch_map[Head(order)]),
            LAMBDA s : WritePatchEntities(s, Tail(order)))

\* Fields of a value that hold an Entity.
RefFields(v) == DOMAIN v.fields \cap {"entity"}

\* MapEntities of one component: a reference the map knows becomes the mapped
\* identity.
MapValue(v, entity_map) ==
  [v EXCEPT !.fields =
     [f \in DOMAIN v.fields |->
        IF f \in RefFields(v) /\ v.fields[f] \in DOMAIN entity_map
        THEN entity_map[v.fields[f]] ELSE v.fields[f]]]

\* ReflectMapEntities::map_entities(world, entity_map, entities) of type t.
RECURSIVE MapEntities(_, _, _, _)
MapEntities(w, entity_map, t, entities) ==
  IF entities = <<>> THEN w
  ELSE LET e == Head(entities)
           w1 == IF e \in DOMAIN w.ents /\ t \in DOMAIN w.ents[e]
                 THEN [w EXCEPT !.ents[e][t] = MapValue(@, entity_map)]
                 ELSE w
       IN Then(w1, LAMBDA x : MapEntities(x, entity_map, t, Tail(entities)))

\* The loop over scene_mappings: one map_entities call per tracked type.
RECURSIVE RewritePass(_, _)
RewritePass(st, types) ==
  IF types = {} THEN st
  ELSE LET t == CHOOSE x \in types : TRUE
           st1 == [st EXCEPT
                     !.world = MapEntities(st.world, st.entity_map, t,
                                           st.scene_mappings[t]),
                     !.rewrites = Append(@, [type |-> t,
                                             entities |-> st.scene_mappings[t],
                                             entity_map |-> st.entity_map,
                                             alive |-> Alive(st.world)])]
       IN Then(st1, LAMBDA s : RewritePass(s, types \ {t}))

\* mutant: every call starts from an empty table
WriteStartFreshMap(patch, world, entity_map) ==
  [world |-> world, entity_map |-> EmptyMap, patch_map |-> PatchMap(patch),
   scene_mappings |-> EmptyMap, rewrites |-> <<>>, err |-> Ok]

WriteStart(patch, world, entity_map) ==
  [world |-> world, entity_map |-> entity_map, patch_map |-> PatchMap(patch),
   scene_mappings |-> EmptyMap, rewrites |-> <<>>, err |-> Ok]

\* The two entity loops up to the first error.
WriteLoops(patch, prefab, world, entity_map) ==
  WriteEntities(WriteStart(patch, world, entity_map), patch, prefab.entities)

\* patch_map.into_values(): the remaining keys in the order the HashMap
\* yields them.  bevy's HashMap hashes with a fixed state, so the order is a
\* fixed property of the build: hash_order lists the local ids in it.
IntoValues(patch_map, hash_order) ==
  SelectSeq(hash_order, LAMBDA k : k \in DOMAIN patch_map)

\* write_to_world
write_to_world(patch, prefab, world, entity_map, hash_order) ==
  Then(WriteLoops(patch, prefab, world, entity_map), LAMBDA st1 :
    Then(WritePatchEntities(st1, IntoValues(st1.patch_map, hash_order)), LAMBDA st2 :
      IF st2.err # Ok THEN st2
      ELSE RewritePass(st2, DOMAIN st2.scene_mappings)))

\* ------------------------------------------------------------ the spawner
\* Patch::default()
DefaultPatch == [path |-> "", modify |-> <<>>, ignore |-> {}]

\* PrefabInstanceInfo::spawn: assets is Assets<Prefab>, a map from handle to
\* the Option of the loaded prefab.  Returns the writer's final state.
InfoSpawn(world, assets, handle, entity_map) ==
  IF assets[handle] = <<>>
  THEN [WriteStart(DefaultPatch, world, entity_map)
          EXCEPT !.err = Err("NonExistentPrefab", handle)]
  ELSE write_to_world(DefaultPatch, assets[handle][1], world, entity_map, <<>>)

Values(f) == {f[x] : x \in DOMAIN f}

\* PrefabInstanceInfo::despawn: world.despawn of every mapped entity.
RECURSIVE DespawnAll(_, _)
DespawnAll(w, entities) ==
  IF entities = {} THEN w
  ELSE LET e == CHOOSE x \in entities : TRUE
       IN Then(IF e \in Alive(w) THEN Despawn(w, e) ELSE w,
               LAMBDA x : DespawnAll(x, entities \ {e}))

\* mutant: despawns the keys of the map, not its values
InfoDespawnKeys(world, entity_map) == DespawnAll(world, DOMAIN entity_map)

InfoDespawn(world, entity_map) == DespawnAll(world, Values(entity_map))

\* The spawner state the steps of a pass thread through: sp.world, the
\* fields of Spawned (sp.prefabs, sp.instances), sp.next_id for generate_id,
\* sp.crashed once a step panicked, sp.log, one entry per spawn attempt of
\* the pass, and sp.updated, one entry per update step with the ids of the
\* instances the step wrote.
\* mutant: the id is pushed onto the bucket twice
PushIdTwice(prefabs, handle, id) ==
  Put(prefabs, handle,
      (IF handle \in DOMAIN prefabs THEN prefabs[handle] ELSE <<>>) \o <<id, id>>)

PushId(prefabs, handle, id) ==
  Put(prefabs, handle, (IF handle \in DOMAIN prefabs THEN prefabs[handle] ELSE <<>>) \o <<id>>)

\* Spawned::despawn
SpawnedDespawn(sp, id) ==
  IF id \in DOMAIN sp.instances
  THEN [sp EXCEPT !.instances = RemoveKey(@, id),
                  !.world = InfoDespawn(sp.world, sp.instances[id])]
  ELSE sp

\* mutant: the instance is recorded whether or not the write succeeded
SpawnedSpawnKeepsFailed(sp, assets, handle) ==
  Then(InfoSpawn(sp.world, assets, handle, EmptyMap), LAMBDA r :
    [sp EXCEPT !.world = r.world, !.err = r.err,
               !.instances = Put(@, sp.next_id, r.entity_map),
               !.prefabs = PushId(@, handle, sp.next_id),
               !.next_id = @ + 1])

\* Spawned::spawn (spawn_sync); the new id is generated after the write
\* succeeded.
SpawnedSpawn(sp, assets, handle) ==
  Then(InfoSpawn(sp.world, assets, handle, EmptyMap), LAMBDA r :
    IF r.err # Ok THEN [sp EXCEPT !.world = r.world, !.err = r.err]
    ELSE [sp EXCEPT !.world = r.world, !.err = Ok,
                    !.instances = Put(@, sp.next_id, r.entity_map),
                    !.prefabs = PushId(@, handle, sp.next_id),
                    !.next_id = @ + 1])

\* Spawned::update: re-runs the write on every tracked instance of handle;
\* unwrap() panics at the first failing write.
RECURSIVE UpdateInstances(_, _, _, _)
UpdateInstances(sp, assets, handle, ids) ==
  IF ids = <<>> \/ sp.crashed THEN sp
  ELSE LET id == Head(ids)
       IN IF id \notin DOMAIN sp.instances
          THEN UpdateInstances(sp, assets, handle, Tail(ids))
          ELSE Then(InfoSpawn(sp.world, assets, handle, sp.instances[id]), LAMBDA r :
                 Then([sp EXCEPT !.world = r.world,
                                 !.instances[id] = r.entity_map,
                                 !.crashed = r.err # Ok,
                                 !.updated[Len(sp.updated)].ids = Append(@, id)],
                      LAMBDA sp1 : UpdateInstances(sp1, assets, handle, Tail(ids))))

SpawnedUpdate(sp, assets, handle) ==
  Then([sp EXCEPT !.updated = Append(@, [handle |-> handle, ids |-> <<>>])],
       LAMBDA sp1 :
         IF handle \in DOMAIN sp1.prefabs
         THEN UpdateInstances(sp1, assets, handle, sp1.prefabs[handle])
         ELSE sp1)

\* maintain, step 1: the Modified events the reader has not seen yet whose
\* handle has a bucket in spawned.prefabs.
\* mutant: the reader queues an update for every event of a tracked handle,
\* whatever its kind
RECURSIVE ReadEventsAnyKind(_, _)
ReadEventsAnyKind(evs, prefabs) ==
  IF evs = <<>> THEN <<>>
  ELSE (IF Head(evs).handle \in DOMAIN prefabs
        THEN <<Head(evs).handle>> ELSE <<>>) \o ReadEventsAnyKind(Tail(evs), prefabs)

RECURSIVE ReadEvents(_, _)
ReadEvents(evs, prefabs) ==
  IF evs = <<>> THEN <<>>
  ELSE (IF Head(evs).kind = "Modified" /\ Head(evs).handle \in DOMAIN prefabs
        THEN <<Head(evs).handle>> ELSE <<>>) \o ReadEvents(Tail(evs), prefabs)

\* maintain, step 2: to_despawn.drain(..)
RECURSIVE DrainDespawn(_, _)
DrainDespawn(sp, ids) ==
  IF ids = <<>> THEN sp
  ELSE Then(SpawnedDespawn(sp, Head(ids)), LAMBDA sp1 : DrainDespawn(sp1, Tail(ids)))

\* mutant: a request whose prefab does not exist is dropped like any failure
RetainSpawnDropsPending(sp, assets, req) ==
  Then(InfoSpawn(sp.world, assets, req.handle, EmptyMap), LAMBDA r :
    LET entry == [id |-> req.id, handle |-> req.handle,
                  resolved |-> assets[req.handle] # <<>>, err |-> r.err,
                  created |-> Alive(r.world) \ Alive(sp.world)]
        sp1 == [sp EXCEPT !.world = r.world, !.log = Append(@, entry)]
    IN IF r.err = Ok
       THEN [sp1 EXCEPT !.instances = Put(@, req.id, r.entity_map),
                        !.prefabs = PushId(@, req.handle, req.id)]
       ELSE sp1)

\* mutant: one PrefabInstanceInfo is shared by the instances of a handle
RetainSpawnSharedInfo(sp, assets, req) ==
  LET shared == IF req.handle \in DOMAIN sp.prefabs
                   /\ \E i \in DOMAIN sp.prefabs[req.handle] :
                        sp.prefabs[req.handle][i] \in DOMAIN sp.instances
                THEN sp.instances[sp.prefabs[req.handle][
                       CHOOSE i \in DOMAIN sp.prefabs[req.handle] :
                         sp.prefabs[req.handle][i] \in DOMAIN sp.instances]]
                ELSE EmptyMap
  IN Then(InfoSpawn(sp.world, assets, req.handle, shared), LAMBDA r :
    LET entry == [id |-> req.id, handle |-> req.handle,
                  resolved |-> assets[req.handle] # <<>>, err |-> r.err,
                  created |-> Alive(r.world) \ Alive(sp.world)]
        sp1 == [sp EXCEPT !.world = r.world, !.log = Append(@, entry)]
    IN IF r.err = Ok
       THEN [sp1 EXCEPT !.instances = Put(@, req.id, r.entity_map),
                        !.prefabs = PushId(@, req.handle, req.id)]
       ELSE IF r.err.kind = "NonExistentPrefab"
       THEN [sp1 EXCEPT !.kept = Append(@, req)]
       ELSE sp1)

\* maintain, step 3: to_spawn.retain(..); sp.kept collects the retained
\* requests.
RetainSpawn(sp, assets, req) ==
  Then(InfoSpawn(sp.world, assets, req.handle, EmptyMap), LAMBDA r :
    LET entry == [id |-> req.id, handle |-> req.handle,
                  resolved |-> assets[req.handle] # <<>>, err |-> r.err,
                  created |-> Alive(r.world) \ Alive(sp.world)]
        sp1 == [sp EXCEPT !.world = r.world, !.log = Append(@, entry)]
    IN IF r.err = Ok
       THEN [sp1 EXCEPT !.instances = Put(@, req.id, r.entity_map),
                        !.prefabs = PushId(@, req.handle, req.id)]
       ELSE IF r.err.kind = "NonExistentPrefab"
       THEN [sp1 EXCEPT !.kept = Append(@, req)]
       ELSE sp1)

\* mutant: the first request that fails for good ends the step, the requests
\* after it stay queued without an attempt
RECURSIVE RetainSpawnsStopAtError(_, _, _)
RetainSpawnsStopAtError(sp, assets, reqs) ==
  IF reqs = <<>> THEN sp
  ELSE Then(RetainSpawn(sp, assets, Head(reqs)), LAMBDA sp1 :
         IF sp1.log[Len(sp1.log)].err.kind \in {"Ok", "NonExistentPrefab"}
         THEN RetainSpawnsStopAtError(sp1, assets, Tail(reqs))
         ELSE [sp1 EXCEPT !.kept = @ \o Tail(reqs)])

RECURSIVE RetainSpawns(_, _, _)
RetainSpawns(sp, assets, reqs) ==
  IF reqs = <<>> THEN sp
  ELSE Then(RetainSpawn(sp, assets, Head(reqs)),
            LAMBDA sp1 : RetainSpawns(sp1, assets, Tail(reqs)))

\* maintain, step 4: updates.drain(..)
RECURSIVE DrainUpdates(_, _, _)
DrainUpdates(sp, assets, handles) ==
  IF handles = <<>> \/ sp.crashed THEN sp
  ELSE Then(SpawnedUpdate(sp, assets, Head(handles)),
            LAMBDA sp1 : DrainUpdates(sp1, assets, Tail(handles)))

\* AddChild { parent, child }.apply(world): the child gets the Parent
\* component of the parent.
AddChild(w, parent, child) ==
  Insert(w, child, Value("Parent", [entity |-> parent]))

\* mutant: every live record of the instance is handed to AddChild, with or
\* without a Parent
RECURSIVE AttachChildrenAlways(_, _, _)
AttachChildrenAlways(w, parent, children) ==
  IF children = {} THEN w
  ELSE LET child == CHOOSE x \in children : TRUE
           w1 == IF child \in Alive(w)
                 THEN AddChild(w, parent, child) ELSE w
       IN Then(w1, LAMBDA x : AttachChildrenAlways(x, parent, children \ {child}))

RECURSIVE AttachChildren(_, _, _)
AttachChildren(w, parent, children) ==
  IF children = {} THEN w
  ELSE LET child == CHOOSE x \in children : TRUE
           w1 == IF child \in Alive(w) /\ "Parent" \notin DOMAIN w.ents[child]
                 THEN AddChild(w, parent, child) ELSE w
       IN Then(w1, LAMBDA x : AttachChildren(x, parent, children \ {child}))

\* maintain, step 5: with_parent.retain(..)
RECURSIVE RetainParents(_, _)
RetainParents(sp, entries) ==
  IF entries = <<>> THEN sp
  ELSE LET en == Head(entries)
           sp1 == IF en.id \in DOMAIN sp.instances
                  THEN [sp EXCEPT !.world = AttachChildren(sp.world, en.parent,
                                                           Values(sp.instances[en.id]))]
                  ELSE [sp EXCEPT !.kept_parents = Append(@, en)]
       IN Then(sp1, LAMBDA x : RetainParents(x, Tail(entries)))

\* ------------------------------------------------------------------ state
VARIABLES
  world,        \* the bevy World: live records and the identity counter
  \* direct calls of write_to_world
  patch,        \* the Patch of the calls
  prefab,       \* the Prefab of the calls
  hash_order,   \* iteration order of the patch_map of this patch
  maps,         \* the EntityMaps the calls are made with
  writes,       \* number of calls made
  called,       \* the maps a call has been made with
  last,         \* the last call: its EntityMap, the state before, the result
  \* PrefabSpawner
  assets,       \* Assets<Prefab>: handle -> Option<Prefab>
  events,       \* Events<AssetEvent<Prefab>>
  reader,       \* asset_event_reader: number of events read
  prefabs,      \* spawned.prefabs: handle -> Vec<Id>
  instances,    \* spawned.instances: Id -> EntityMap
  to_spawn,     \* Vec<(Handle, Id)>
  to_despawn,   \* Vec<Id>
  with_parent,  \* Vec<(Id, Entity)>
  updates,      \* Vec<Handle>
  next_id,      \* the ids generate_id has handed out are 1..next_id-1
  crashed,      \* a system panicked
  sync_result,  \* what the last spawn_sync returned
  pass_log,     \* history: the spawn attempts of the step, if it was a pass
  retained,     \* history: ids a pass kept in to_spawn
  window,       \* history: ids whose spawn was requested since the last pass
  race,         \* history: ids despawn-requested in the window of their spawn
  gone,         \* history: per despawned instance, the records its map held
  syncs,        \* history: number of spawn_sync calls
  update_log,   \* history: the update steps of the step (a pass or update_sync)
  \* PrefabBuilder
  builder,      \* builder.entities: HashMap<u32, PrefabEntity>; builder.panicked
  passed,       \* history: the entities the extract calls were handed, in order
  built,        \* what build returned, an Option: <<>> or <<prefab>>
  \* serde
  snapshot,     \* the Prefab given to serialize_ron
  document,     \* the ron text, an Option: <<>> or <<entries>>
  decoded       \* what deserialize_ron returned, an Option

writer_vars == <<patch, prefab, hash_order, maps, writes, called, last>>
spawner_vars == <<assets, events, reader, prefabs, instances, to_spawn,
                  to_despawn, with_parent, updates, next_id, crashed,
                  sync_result, pass_log, retained, window, race, gone,
                  syncs, update_log>>
builder_vars == <<builder, passed, built>>
codec_vars == <<snapshot, document, decoded>>
vars == <<world, writer_vars, spawner_vars, builder_vars, codec_vars>>

\* ------------------------------------------------- inputs of direct calls
Position(x, y) == Value("Position", [x |-> x, y |-> y])
Parent(e) == Value("Parent", [entity |-> e])
Proxy(e) == Value("Proxy", [entity |-> e])
Bare == Value("Bare", [x |-> 0])
Ghost == Value("Ghost", [x |-> 0])

\* component lists of prefab entities
ComponentLists ==
  {<<Position(0, 0)>>, <<Position(0, 0), Parent(MaxLocalId)>>, <<Proxy(1)>>,
   <<Ghost, Position(0, 0)>>, <<Position(0, 0), Bare>>}

PrefabEntities == [entity : LocalIds, components : ComponentLists]

\* prefabs of one or two entities; a local id is unique within a prefab
Prefabs ==
  {[entities |-> <<a>>] : a \in PrefabEntities}
    \cup {[entities |-> <<ab[1], ab[2]>>] :
            ab \in {x \in PrefabEntities \X PrefabEntities : x[1].entity # x[2].entity}}

AppendLists == {<<>>, <<Position(1, 1)>>, <<Parent(1)>>, <<Ghost>>}

\* modify maps: type name -> (path -> value); Position has no field z
ModifyMaps ==
  {EmptyMap, "Position" :> ("x" :> 5), "Position" :> ("z" :> 5)}

RemoveSets == {{}, {"Position"}}

PatchEntities ==
  [entity : PatchIds, append : AppendLists, modify : ModifyMaps, remove : RemoveSets]

AppendOnly == {p \in PatchEntities : p.append # <<>> /\ p.modify = EmptyMap /\ p.remove = {}}

PatchLists ==
  {<<>>} \cup {<<p>> : p \in PatchEntities}
         \cup {<<p, q>> : p \in AppendOnly, q \in AppendOnly}

Patches == [path : {""}, modify : PatchLists, ignore : {{}, {1}}]

RECURSIVE Orders(_)
Orders(S) ==
  IF S = {} THEN {<<>>}
  ELSE UNION {{<<x>> \o o : o \in Orders(S \ {x})} : x \in S}

\* The local ids the first loop leaves in patch_map when it does not fail.
Unmatched(pt, pf) ==
  DOMAIN PatchMap(pt) \
    ({pf.entities[i].entity : i \in DOMAIN pf.entities} \ pt.ignore)

\* A world that already holds one record, which no prefab is written to.
BaseWorld == Insert(SpawnEmpty(EmptyWorld), 0, Position(9, 9))

Slots == {1, 2}

\* last.slot: the map of the call (0: no call yet); last.again: a call had
\* been made with that map before; last.world, last.entity_map: the state
\* the call started from; last.st: the writer's final state.
NoCall == [slot |-> 0, again |-> FALSE, world |-> BaseWorld,
           entity_map |-> EmptyMap,
           st |-> WriteStart(DefaultPatch, BaseWorld, EmptyMap)]

Handles == {"a", "b"}

\* PrefabBuilder::from_world_with_registry: nothing extracted yet
BuilderIdle ==
  /\ builder = [entities |-> EmptyMap, panicked |-> FALSE]
  /\ passed = <<>> /\ built = <<>>

\* no prefab has been serialized or deserialized
CodecIdle ==
  /\ snapshot = [entities |-> <<>>]
  /\ document = <<>> /\ decoded = <<>>

SpawnerIdle ==
  /\ events = <<>> /\ reader = 0
  /\ prefabs = EmptyMap /\ instances = EmptyMap
  /\ to_spawn = <<>> /\ to_despawn = <<>> /\ with_parent = <<>> /\ updates = <<>>
  /\ next_id = 1 /\ crashed = FALSE
  /\ sync_result = [err |-> Ok, id |-> 0]
  /\ pass_log = <<>> /\ retained = {} /\ window = {} /\ race = EmptyMap
  /\ gone = EmptyMap /\ syncs = 0 /\ update_log = <<>>

InitWrite ==
  /\ world = BaseWorld
  /\ assets = [h \in Handles |-> <<>>]
  /\ patch \in Patches
  /\ prefab \in Prefabs
  /\ hash_order \in Orders(Unmatched(patch, prefab))
  /\ maps = [s \in Slots |-> EmptyMap]
  /\ writes = 0
  /\ called = {}
  /\ last = NoCall
  /\ SpawnerIdle /\ BuilderIdle /\ CodecIdle

\* One call write_to_world(&patch, &prefab, &mut world, &mut maps[slot]).
\* The second map is only used once the first has been.
Write(slot) ==
  /\ writes < MaxWrites
  /\ slot = 1 \/ 1 \in called
  /\ \E st \in {write_to_world(patch, prefab, world, maps[slot], hash_order)} :
        /\ world' = st.world
        /\ maps' = [maps EXCEPT ![slot] = st.entity_map]
        /\ last' = [slot |-> slot, again |-> slot \in called, world |-> world,
                    entity_map |-> maps[slot], st |-> st]
  /\ writes' = writes + 1
  /\ called' = called \cup {slot}
  /\ UNCHANGED <<patch, prefab, hash_order, spawner_vars, builder_vars, codec_vars>>

NextWrite == \E slot \in Slots : Write(slot)

SpecWrite == InitWrite /\ [][NextWrite]_vars

\* ------------------------------------------- hot updates of one instance
\* prefabs that list a local id twice
DupPrefabs ==
  {[entities |-> <<[entity |-> 1, components |-> <<Position(0, 0)>>],
                   [entity |-> 1, components |-> <<Position(1, 1)>>]>>],
   [entities |-> <<[entity |-> 2, components |-> <<Position(0, 0), Parent(2)>>],
                   [entity |-> 1, components |-> <<Position(0, 0)>>],
                   [entity |-> 2, components |-> <<Ghost>>]>>]}

\* the prefabs a reload of the asset can bring between two writes
ReloadPrefabs ==
  DupPrefabs \cup
  {[entities |-> <<[entity |-> 1, components |-> <<Position(0, 0), Parent(2)>>],
                   [entity |-> 2, components |-> <<Position(0, 0)>>]>>],
   [entities |-> <<[entity |-> 2, components |-> <<Proxy(1)>>]>>],
   [entities |-> <<>>]}

\* the patches of the calls: none, a patch entity no prefab entity matches,
\* and an ignored entity that a patch entity names
ReloadPatches ==
  {DefaultPatch,
   [path |-> "", ignore |-> {},
    modify |-> <<[entity |-> MaxLocalId + 1, append |-> <<Parent(1)>>,
                  modify |-> EmptyMap, remove |-> {}]>>],
   [path |-> "", ignore |-> {1},
    modify |-> <<[entity |-> 1, append |-> <<Position(1, 1)>>,
                  modify |-> EmptyMap, remove |-> {}]>>]}

InitReload ==
  /\ world = BaseWorld
  /\ assets = [h \in Handles |-> <<>>]
  /\ patch \in ReloadPatches
  /\ prefab \in ReloadPrefabs
  /\ hash_order \in Orders(DOMAIN PatchMap(patch))
  /\ maps = [s \in Slots |-> EmptyMap]
  /\ writes = 0
  /\ called = {}
  /\ last = NoCall
  /\ SpawnerIdle /\ BuilderIdle /\ CodecIdle

\* The prefab asset is replaced between two writes of the instance.
Reload(pf) ==
  /\ writes > 0 /\ pf # prefab
  /\ prefab' = pf
  /\ UNCHANGED <<world, patch, hash_order, maps, writes, called, last, spawner_vars,
                 builder_vars, codec_vars>>

NextReload ==
  \/ \E slot \in Slots : Write(slot)
  \/ \E pf \in ReloadPrefabs : Reload(pf)

SpecReload == InitReload /\ [][NextReload]_vars

\* ---------------------------------------------------- the spawner's world
\* bounds of the spawner behaviours
MaxIds == 2       \* ids generate_id hands out
MaxEvents == 1    \* asset events sent
MaxQueue == 1     \* length of to_despawn
MaxSyncs == 1     \* spawn_sync calls

\* the prefabs an asset can hold: a child with its parent, a single record,
\* and one whose second entity has an unregistered type
FamilyPrefab ==
  [entities |-> <<[entity |-> 1, components |-> <<Position(0, 0), Parent(2)>>],
                  [entity |-> 2, components |-> <<Position(0, 0)>>]>>]
SinglePrefab ==
  [entities |-> <<[entity |-> 1, components |-> <<Position(1, 1)>>]>>]
BrokenPrefab ==
  [entities |-> <<[entity |-> 1, components |-> <<Position(0, 0)>>],
                  [entity |-> 2, components |-> <<Ghost>>]>>]
AssetPrefabs == {FamilyPrefab, SinglePrefab, BrokenPrefab}

\* what the asset server has loaded before the spawner's first pass
LoadedAtStart ==
  {[h \in Handles |-> <<>>],
   [h \in Handles |-> IF h = "a" THEN <<FamilyPrefab>> ELSE <<>>],
   [h \in Handles |-> IF h = "a" THEN <<FamilyPrefab>> ELSE <<SinglePrefab>>]}

Init ==
  /\ world = BaseWorld
  /\ patch = DefaultPatch /\ prefab = [entities |-> <<>>] /\ hash_order = <<>>
  /\ maps = [s \in Slots |-> EmptyMap] /\ writes = 0 /\ called = {}
  /\ last = NoCall
  /\ assets \in LoadedAtStart
  /\ SpawnerIdle /\ BuilderIdle /\ CodecIdle

\* The asset server loads, reloads or drops a prefab and sends the event.
LoadAsset(h, pf) ==
  /\ ~crashed /\ Len(events) < MaxEvents
  /\ assets[h] = <<>>
  /\ assets' = [assets EXCEPT ![h] = <<pf>>]
  /\ events' = Append(events, [kind |-> "Created", handle |-> h])
  /\ pass_log' = <<>> /\ update_log' = <<>>
  /\ UNCHANGED <<world, writer_vars, builder_vars, codec_vars, reader, prefabs, instances, to_spawn,
                 to_despawn, with_parent, updates, next_id, crashed,
                 sync_result, retained, window, race, gone, syncs>>

ModifyAsset(h, pf) ==
  /\ ~crashed /\ Len(events) < MaxEvents
  /\ assets[h] # <<>>
  /\ assets' = [assets EXCEPT ![h] = <<pf>>]
  /\ events' = Append(events, [kind |-> "Modified", handle |-> h])
  /\ pass_log' = <<>> /\ update_log' = <<>>
  /\ UNCHANGED <<world, writer_vars, builder_vars, codec_vars, reader, prefabs, instances, to_spawn,
                 to_despawn, with_parent, updates, next_id, crashed,
                 sync_result, retained, window, race, gone, syncs>>

RemoveAsset(h) ==
  /\ ~crashed /\ Len(events) < MaxEvents
  /\ assets[h] # <<>>
  /\ assets' = [assets EXCEPT ![h] = <<>>]
  /\ events' = Append(events, [kind |-> "Removed", handle |-> h])
  /\ pass_log' = <<>> /\ update_log' = <<>>
  /\ UNCHANGED <<world, writer_vars, builder_vars, codec_vars, reader, prefabs, instances, to_spawn,
                 to_despawn, with_parent, updates, next_id, crashed,
                 sync_result, retained, window, race, gone, syncs>>

\* PrefabSpawner::spawn(handle, parent); parent is an Option: <<>> or <<e>>.
Spawn(h, parent) ==
  /\ ~crashed /\ next_id <= MaxIds
  /\ to_spawn' = Append(to_spawn, [handle |-> h, id |-> next_id])
  /\ with_parent' = IF parent = <<>> THEN with_parent
                    ELSE Append(with_parent, [id |-> next_id, parent |-> parent[1]])
  /\ next_id' = next_id + 1
  /\ window' = window \cup {next_id}
  /\ pass_log' = <<>> /\ update_log' = <<>>
  /\ UNCHANGED <<world, writer_vars, builder_vars, codec_vars, assets, events, reader, prefabs, instances,
                 to_despawn, updates, crashed, sync_result, retained,
                 race, gone, syncs>>

\* mutant: despawn removes the instance at once, besides queueing the id
RequestDespawnNow(id) ==
  /\ ~crashed /\ Len(to_despawn) < MaxQueue
  /\ id \in 1..(next_id - 1)
  /\ to_despawn' = Append(to_despawn, id)
  /\ world' = DespawnAll(world, IF id \in DOMAIN instances
                                THEN Values(instances[id]) ELSE {})
  /\ instances' = [x \in DOMAIN instances \ {id} |-> instances[x]]
  /\ race' = IF id \in window /\ id \notin DOMAIN race THEN Put(race, id, 0) ELSE race
  /\ pass_log' = <<>> /\ update_log' = <<>>
  /\ UNCHANGED <<writer_vars, builder_vars, codec_vars, assets, events, reader, prefabs,
                 to_spawn, with_parent, updates, next_id, crashed, sync_result,
                 retained, window, gone, syncs>>

\* PrefabSpawner::despawn(&PrefabInstance(id)) with an id a spawn returned.
RequestDespawn(id) ==
  /\ ~crashed /\ Len(to_despawn) < MaxQueue
  /\ id \in 1..(next_id - 1)
  /\ to_despawn' = Append(to_despawn, id)
  /\ race' = IF id \in window /\ id \notin DOMAIN race THEN Put(race, id, 0) ELSE race
  /\ pass_log' = <<>> /\ update_log' = <<>>
  /\ UNCHANGED <<world, writer_vars, builder_vars, codec_vars, assets, events, reader, prefabs, instances,
                 to_spawn, with_parent, updates, next_id, crashed, sync_result,
                 retained, window, gone, syncs>>

SpawnerState ==
  [world |-> world, prefabs |-> prefabs, instances |-> instances,
   next_id |-> next_id, crashed |-> FALSE, err |-> Ok,
   log |-> <<>>, kept |-> <<>>, kept_parents |-> <<>>, updated |-> <<>>]

\* The records of the instances a step despawned.
Despawned(before, after) ==
  [id \in DOMAIN before \ DOMAIN after |-> Values(before[id])]

\* mutant: the pass runs the queued updates before the despawns and spawns
MaintainUpdatesFirst ==
  /\ ~crashed
  /\ \E read \in {ReadEvents(SubSeq(events, reader + 1, Len(events)), prefabs)} :
     \E sp1 \in {DrainUpdates(SpawnerState, assets, updates \o read)} :
     \E sp2 \in {IF sp1.crashed THEN sp1 ELSE DrainDespawn(sp1, to_despawn)} :
     \E sp3 \in {IF sp1.crashed THEN sp2 ELSE RetainSpawns(sp2, assets, to_spawn)} :
     \E sp4 \in {IF sp1.crashed THEN sp3 ELSE RetainParents(sp3, with_parent)} :
        /\ reader' = Len(events)
        /\ to_despawn' = <<>>
        /\ to_spawn' = IF sp1.crashed THEN to_spawn ELSE sp3.kept
        /\ updates' = <<>>
        /\ with_parent' = IF sp1.crashed THEN with_parent ELSE sp4.kept_parents
        /\ world' = sp4.world
        /\ prefabs' = sp4.prefabs
        /\ instances' = sp4.instances
        /\ crashed' = sp4.crashed
        /\ pass_log' = sp3.log
        /\ update_log' = sp1.updated
        /\ retained' = retained \cup {sp3.kept[i].id : i \in DOMAIN sp3.kept}
        /\ gone' = gone @@ Despawned(sp1.instances, sp2.instances)
        /\ race' = [id \in {x \in DOMAIN race : race[x] > 0 \/ x \in DOMAIN sp3.instances}
                      |-> IF race[id] < 2 THEN race[id] + 1 ELSE 2]
  /\ window' = {}
  /\ UNCHANGED <<writer_vars, builder_vars, codec_vars, assets, events, next_id, sync_result, syncs>>

\* PrefabSpawner::maintain (prefab_spawner_maintain_system): one pass.
Maintain ==
  /\ ~crashed
  /\ \E read \in {ReadEvents(SubSeq(events, reader + 1, Len(events)), prefabs)} :
     \E sp1 \in {DrainDespawn(SpawnerState, to_despawn)} :
     \E sp2 \in {RetainSpawns(sp1, assets, to_spawn)} :
     \E sp3 \in {DrainUpdates(sp2, assets, updates \o read)} :
     \E sp4 \in {IF sp3.crashed THEN sp3 ELSE RetainParents(sp3, with_parent)} :
        /\ reader' = Len(events)
        /\ to_despawn' = <<>>
        /\ to_spawn' = sp2.kept
        /\ updates' = <<>>
        /\ with_parent' = IF sp3.crashed THEN with_parent ELSE sp4.kept_parents
        /\ world' = sp4.world
        /\ prefabs' = sp4.prefabs
        /\ instances' = sp4.instances
        /\ crashed' = sp4.crashed
        /\ pass_log' = sp2.log
        /\ update_log' = sp3.updated
        /\ retained' = retained \cup {sp2.kept[i].id : i \in DOMAIN sp2.kept}
        /\ gone' = gone @@ Despawned(instances, sp1.instances)
        /\ race' = [id \in {x \in DOMAIN race : race[x] > 0 \/ x \in DOMAIN sp2.instances}
                      |-> IF race[id] < 2 THEN race[id] + 1 ELSE 2]
  /\ window' = {}
  /\ UNCHANGED <<writer_vars, builder_vars, codec_vars, assets, events, next_id, sync_result, syncs>>

\* PrefabSpawner::spawn_sync
SpawnSync(h) ==
  /\ ~crashed /\ next_id <= MaxIds /\ syncs < MaxSyncs
  /\ syncs' = syncs + 1
  /\ \E sp \in {SpawnedSpawn(SpawnerState, assets, h)} :
        /\ world' = sp.world
        /\ prefabs' = sp.prefabs
        /\ instances' = sp.instances
        /\ next_id' = sp.next_id
        /\ sync_result' = [err |-> sp.err, id |-> IF sp.err = Ok THEN next_id ELSE 0]
  /\ pass_log' = <<>> /\ update_log' = <<>>
  /\ UNCHANGED <<writer_vars, builder_vars, codec_vars, assets, events, reader, to_spawn, to_despawn,
                 with_parent, updates, crashed, retained, window,
                 race, gone>>

\* PrefabSpawner::update_sync
UpdateSync(h) ==
  /\ ~crashed
  /\ \E sp \in {SpawnedUpdate(SpawnerState, assets, h)} :
        /\ world' = sp.world
        /\ instances' = sp.instances
        /\ crashed' = sp.crashed
        /\ update_log' = sp.updated
  /\ pass_log' = <<>>
  /\ UNCHANGED <<writer_vars, builder_vars, codec_vars, assets, events, reader, prefabs, to_spawn,
                 to_despawn, with_parent, updates, next_id, sync_result,
                 retained, window, race, gone, syncs>>

\* PrefabSpawner::despawn_sync
DespawnSync(id) ==
  /\ ~crashed
  /\ id \in 1..(next_id - 1)
  /\ \E sp \in {SpawnedDespawn(SpawnerState, id)} :
        /\ world' = sp.world
        /\ instances' = sp.instances
        /\ gone' = gone @@ Despawned(instances, sp.instances)
  /\ pass_log' = <<>> /\ update_log' = <<>>
  /\ UNCHANGED <<writer_vars, builder_vars, codec_vars, assets, events, reader, prefabs, to_spawn,
                 to_despawn, with_parent, updates, next_id, crashed,
                 sync_result, retained, window, race, syncs>>

Next ==
  \/ \E h \in Handles, pf \in AssetPrefabs : LoadAsset(h, pf)
  \/ \E h \in Handles, pf \in AssetPrefabs : ModifyAsset(h, pf)
  \/ \E h \in Handles : RemoveAsset(h)
  \/ \E h \in Handles, parent \in {<<>>, <<0>>} : Spawn(h, parent)
  \/ \E id \in 1..MaxIds : RequestDespawn(id)
  \/ Maintain
  \/ \E h \in Handles : SpawnSync(h)
  \/ \E h \in Handles : UpdateSync(h)
  \/ \E id \in 1..MaxIds : DespawnSync(id)

Spec == Init /\ [][Next]_vars

\* ------------------------------------------------- asset events in a row
MaxNotes == 3     \* asset events sent

\* Assets<Prefab>::set / remove: the asset of the handle is replaced by
\* content (<<>>: removed) and the event that says so is sent.
Notify(h, content) ==
  /\ ~crashed /\ Len(events) < MaxNotes
  /\ content # <<>> \/ assets[h] # <<>>
  /\ assets' = [assets EXCEPT ![h] = content]
  /\ events' = Append(events,
                      [kind |-> IF content = <<>> THEN "Removed"
                                ELSE IF assets[h] = <<>> THEN "Created"
                                ELSE "Modified",
                       handle |-> h])
  /\ pass_log' = <<>> /\ update_log' = <<>>
  /\ UNCHANGED <<world, writer_vars, builder_vars, codec_vars, reader, prefabs, instances, to_spawn,
                 to_despawn, with_parent, updates, next_id, crashed,
                 sync_result, retained, window, race, gone, syncs>>

NextEvents ==
  \/ \E h \in Handles, content \in {<<>>} \cup {<<pf>> : pf \in AssetPrefabs} :
       Notify(h, content)
  \/ \E h \in Handles : Spawn(h, <<>>)
  \/ Maintain

SpecEvents == Init /\ [][NextEvents]_vars

\* ------------------------------------------------ roots with a PrefabBundle
\* the record that carries the Handle<Prefab> of a PrefabBundle
Root == 0

\* the PrefabInstance of a record, an Option
InstanceOf(w, e) ==
  IF "PrefabInstance" \in DOMAIN w.ents[e]
  THEN <<w.ents[e]["PrefabInstance"].fields.id>> ELSE <<>>

\* prefab_update_system after the handle of Root was set to h: spawn with the
\* root as parent and, when the root has a PrefabInstance, despawn of it; the
\* root gets the new PrefabInstance.
prefab_update_system(h) ==
  /\ ~crashed /\ next_id <= MaxIds
  /\ \E old \in {InstanceOf(world, Root)} :
       /\ to_despawn' = to_despawn \o old
       /\ race' = IF old # <<>> /\ old[1] \in window /\ old[1] \notin DOMAIN race
                  THEN Put(race, old[1], 0) ELSE race
  /\ to_spawn' = Append(to_spawn, [handle |-> h, id |-> next_id])
  /\ with_parent' = Append(with_parent, [id |-> next_id, parent |-> Root])
  /\ world' = Insert(Insert(world, Root, Value("Handle", [handle |-> h])),
                     Root, Value("PrefabInstance", [id |-> next_id]))
  /\ next_id' = next_id + 1
  /\ window' = window \cup {next_id}
  /\ pass_log' = <<>> /\ update_log' = <<>>
  /\ UNCHANGED <<writer_vars, builder_vars, codec_vars, assets, events, reader,
                 prefabs, instances, updates, crashed, sync_result, retained,
                 gone, syncs>>

NextRoot ==
  \/ \E h \in Handles : prefab_update_system(h)
  \/ \E h \in Handles, pf \in AssetPrefabs : LoadAsset(h, pf)
  \/ Maintain

SpecRoot == Init /\ [][NextRoot]_vars

\* ------------------------------------------------------- the prefab builder
MaxExtracts == 3  \* extract calls on one builder

\* the order of the component ids of the world: archetype().components()
\* lists the components of a record in it
ComponentOrder == <<"Position", "Parent", "Proxy", "Bare", "Ghost">>

\* mutant: every component of the archetype is pushed, registered or not
ReflectedAll(w, e) ==
  LET types == SelectSeq(ComponentOrder, LAMBDA t : t \in DOMAIN w.ents[e])
  IN [i \in DOMAIN types |-> w.ents[e][types[i]]]

\* the values extract_entities pushes for the record e: for every component
\* of its archetype whose type is registered with ReflectComponent, a clone of
\* the value
Reflected(w, e) ==
  LET types == SelectSeq(ComponentOrder,
                         LAMBDA t : /\ t \in DOMAIN w.ents[e]
                                    /\ TypeRegistry[t].registered
                                    /\ TypeRegistry[t].component)
  IN [i \in DOMAIN types |-> w.ents[e][types[i]]]

\* mutant: an entity extracted again gets the values pushed once more
ExtractAgain(b, w, e) ==
  IF b.panicked THEN b
  ELSE IF e \notin Alive(w) THEN [b EXCEPT !.panicked = TRUE]
  ELSE [b EXCEPT !.entities =
          Put(@, e, [entity |-> e,
                     components |-> (IF e \in DOMAIN b.entities
                                     THEN b.entities[e].components ELSE <<>>)
                                    \o Reflected(w, e)])]

\* one turn of the loop of extract_entities; world.entity(e) panics when the
\* entity does not exist
Extract(b, w, e) ==
  IF b.panicked THEN b
  ELSE IF e \in DOMAIN b.entities THEN b
  ELSE IF e \notin Alive(w) THEN [b EXCEPT !.panicked = TRUE]
  ELSE [b EXCEPT !.entities =
          Put(@, e, [entity |-> e, components |-> Reflected(w, e)])]

\* PrefabBuilder::extract_entities
RECURSIVE extract_entities(_, _, _)
extract_entities(b, w, es) ==
  IF es = <<>> THEN b
  ELSE Then(Extract(b, w, Head(es)),
            LAMBDA b1 : extract_entities(b1, w, Tail(es)))

\* the worlds a builder is made from: record 0 is part of each, records 1
\* and 2 carry registered and unregistered components
BuilderWorlds ==
  {Insert(Insert(SpawnEmpty(BaseWorld), 1, Parent(0)), 1, Ghost),
   Insert(Insert(Insert(SpawnEmpty(SpawnEmpty(BaseWorld)), 1, Position(1, 1)),
                 1, Parent(2)), 2, Bare),
   Insert(Insert(Insert(SpawnEmpty(SpawnEmpty(BaseWorld)), 1, Ghost),
                 2, Parent(1)), 2, Position(2, 2)),
   Despawn(Insert(SpawnEmpty(SpawnEmpty(BaseWorld)), 2, Position(2, 2)), 1)}

\* what an extract_entities call is handed
Iterators ==
  {<<0, 1>>, <<1, 0>>, <<2, 2>>, <<1, 2, 1>>, <<2, 0, 1>>, <<>>}

InitBuild ==
  /\ world \in BuilderWorlds
  /\ patch = DefaultPatch /\ prefab = [entities |-> <<>>] /\ hash_order = <<>>
  /\ maps = [s \in Slots |-> EmptyMap] /\ writes = 0 /\ called = {}
  /\ last = NoCall
  /\ assets = [h \in Handles |-> <<>>]
  /\ SpawnerIdle /\ BuilderIdle /\ CodecIdle

\* PrefabBuilder::extract_entities(es)
ExtractEntities(es) ==
  /\ built = <<>> /\ ~builder.panicked /\ Len(passed) < MaxExtracts
  /\ builder' = extract_entities(builder, world, es)
  /\ passed' = Append(passed, es)
  /\ UNCHANGED <<world, writer_vars, spawner_vars, built, codec_vars>>

\* PrefabBuilder::extract_entity(e)
ExtractEntity(e) ==
  /\ built = <<>> /\ ~builder.panicked /\ Len(passed) < MaxExtracts
  /\ builder' = extract_entities(builder, world, <<e>>)
  /\ passed' = Append(passed, <<e>>)
  /\ UNCHANGED <<world, writer_vars, spawner_vars, built, codec_vars>>

\* mutant: build hands out the first entry of the map only
BuildFirstOnly(order) ==
  /\ built = <<>> /\ ~builder.panicked
  /\ built' = <<[entities |-> [i \in DOMAIN order \cap {1} |-> builder.entities[order[i]]]]>>
  /\ UNCHANGED <<world, writer_vars, spawner_vars, builder, passed, codec_vars>>

\* PrefabBuilder::build: into_values() hands the entries out in the order of
\* the hash map, which is any order of its keys
Build(order) ==
  /\ built = <<>> /\ ~builder.panicked
  /\ built' = <<[entities |-> [i \in DOMAIN order |-> builder.entities[order[i]]]]>>
  /\ UNCHANGED <<world, writer_vars, spawner_vars, builder, passed, codec_vars>>

NextBuild ==
  \/ \E es \in Iterators : ExtractEntities(es)
  \/ \E e \in 0..2 : ExtractEntity(e)
  \/ \E order \in Orders(DOMAIN builder.entities) : Build(order)

SpecBuild == InitBuild /\ [][NextBuild]_vars

\* ------------------------------------------------------------- the codec
\* The ron text of a prefab is a map with one entry per entity, in order:
\* the local id and a map with one entry per value, in order: the type name
\* and the fields of the value as written by TypedReflectSerializer.

\* the declared fields of the struct types, in order
FieldOrder ==
  [t \in TypeNames |->
     IF t = "Position" THEN <<"x", "y">>
     ELSE IF t = "Proxy" THEN <<"entity", "y">>
     ELSE IF t = "Parent" THEN <<"entity">>
     ELSE <<"x">>]

\* TypedReflectSerializer: the fields the value has, by name, in the order of
\* the struct
SerializeValue(v) ==
  LET names == SelectSeq(FieldOrder[v.type], LAMBDA f : f \in DOMAIN v.fields)
  IN [i \in DOMAIN names |-> <<names[i], v.fields[names[i]]>>]

\* mutant: the value read is not given the type of the registration
DeserializeValueUntyped(t, pairs) ==
  Value("DynamicStruct",
        [f \in {pairs[i][1] : i \in DOMAIN pairs} |->
           pairs[CHOOSE i \in DOMAIN pairs : pairs[i][1] = f][2]])

\* TypedReflectDeserializer::new(registration, registry): a dynamic struct of
\* the registered type t with the fields read
DeserializeValue(t, pairs) ==
  Value(t, [f \in {pairs[i][1] : i \in DOMAIN pairs} |->
              pairs[CHOOSE i \in DOMAIN pairs : pairs[i][1] = f][2]])

\* ComponentsSerializer::serialize
SerializeComponents(components) ==
  [j \in DOMAIN components |->
     [key |-> components[j].type, value |-> SerializeValue(components[j])]]

\* PrefabSerializer::serialize (Prefab::serialize_ron)
serialize_ron(pf) ==
  [i \in DOMAIN pf.entities |->
     [key |-> pf.entities[i].entity,
      value |-> SerializeComponents(pf.entities[i].components)]]

\* mutant: a type name without registration is skipped
RECURSIVE VisitComponentsLenient(_, _)
VisitComponentsLenient(entries, components) ==
  IF entries = <<>> THEN [err |-> Ok, components |-> components]
  ELSE IF ~TypeRegistry[Head(entries).key].registered
  THEN VisitComponentsLenient(Tail(entries), components)
  ELSE Then(Append(components, DeserializeValue(Head(entries).key, Head(entries).value)),
            LAMBDA c : VisitComponentsLenient(Tail(entries), c))

\* ComponentsDeserializer::visit_map: stops at the first type name the
\* registry does not know
RECURSIVE VisitComponents(_, _)
VisitComponents(entries, components) ==
  IF entries = <<>> THEN [err |-> Ok, components |-> components]
  ELSE IF ~TypeRegistry[Head(entries).key].registered
  THEN [err |-> Err("NoRegistration", Head(entries).key), components |-> <<>>]
  ELSE Then(Append(components, DeserializeValue(Head(entries).key, Head(entries).value)),
            LAMBDA c : VisitComponents(Tail(entries), c))

\* PrefabDeserializer::visit_map: `?` hands the first error out
RECURSIVE VisitEntities(_, _)
VisitEntities(entries, ents) ==
  IF entries = <<>> THEN [err |-> Ok, entities |-> ents]
  ELSE Then(VisitComponents(Head(entries).value, <<>>), LAMBDA r :
         IF r.err # Ok THEN [err |-> r.err, entities |-> <<>>]
         ELSE Then(Append(ents, [entity |-> Head(entries).key,
                                 components |-> r.components]),
                   LAMBDA e : VisitEntities(Tail(entries), e)))

\* Prefab::deserialize_ron: a Result, modelled by its error and the Option of
\* its prefab
deserialize_ron(doc) ==
  Then(VisitEntities(doc, <<>>), LAMBDA r :
    [err |-> r.err,
     prefab |-> IF r.err = Ok THEN <<[entities |-> r.entities]>> ELSE <<>>])

\* component lists of the prefabs that are serialized
CodecLists ==
  {<<>>, <<Position(0, 0)>>, <<Position(0, 1), Parent(2)>>,
   <<Parent(1), Position(1, 0)>>, <<Proxy(1), Bare>>,
   <<Position(0, 0), Position(1, 1)>>}
\* component lists that name a type without registration
GhostLists ==
  {<<Ghost>>, <<Position(0, 0), Ghost>>, <<Ghost, Position(0, 0)>>,
   <<Parent(1), Ghost, Position(1, 1), Ghost>>}

PrefabsOf(lists) ==
  LET ents == [entity : LocalIds, components : lists]
  IN {[entities |-> <<>>]} \cup {[entities |-> <<a>>] : a \in ents}
       \cup {[entities |-> <<ab[1], ab[2]>>] : ab \in ents \X ents}

\* the prefabs handed to serialize_ron
CodecPrefabs == PrefabsOf(CodecLists)

\* the texts a prefab file can hold besides those serialize_ron wrote: texts
\* with a type name that has no registration
Files ==
  {serialize_ron(pf) :
     pf \in {p \in PrefabsOf(GhostLists \cup {<<Position(0, 0)>>}) :
               \E i \in DOMAIN p.entities : p.entities[i].components \in GhostLists}}

InitCodec ==
  /\ world = BaseWorld
  /\ patch = DefaultPatch /\ prefab = [entities |-> <<>>] /\ hash_order = <<>>
  /\ maps = [s \in Slots |-> EmptyMap] /\ writes = 0 /\ called = {}
  /\ last = NoCall
  /\ assets = [h \in Handles |-> <<>>]
  /\ SpawnerIdle /\ BuilderIdle
  /\ snapshot \in CodecPrefabs
  /\ document = <<>> /\ decoded = <<>>

\* Prefab::serialize_ron(&snapshot, registry)
Serialize ==
  /\ document = <<>>
  /\ document' = <<serialize_ron(snapshot)>>
  /\ UNCHANGED <<world, writer_vars, spawner_vars, builder_vars, snapshot, decoded>>

\* the bytes of a prefab file are read
ReadFile(doc) ==
  /\ document = <<>>
  /\ document' = <<doc>>
  /\ UNCHANGED <<world, writer_vars, spawner_vars, builder_vars, snapshot, decoded>>

\* Prefab::deserialize_ron(document, registry)
Deserialize ==
  /\ document # <<>> /\ decoded = <<>>
  /\ decoded' = <<deserialize_ron(document[1])>>
  /\ UNCHANGED <<world, writer_vars, spawner_vars, builder_vars, snapshot, document>>

NextCodec ==
  \/ Serialize
  \/ \E doc \in Files : ReadFile(doc)
  \/ Deserialize

SpecCodec == InitCodec /\ [][NextCodec]_vars

\* ============================================================ properties
\* of a direct call (SpecWrite); `last` is the call just made
Called == last.slot # 0
Before == last.entity_map
After == last.st.entity_map
Fresh == Called /\ Before = EmptyMap
Returned(kind) == Called /\ last.st.err.kind = kind

SnapshotIds == {prefab.entities[i].entity : i \in DOMAIN prefab.entities}
\* the record a local id is mapped to after the call, and what it carries
Record(id) == last.st.world.ents[After[id]]
Created == Alive(last.st.world) \ Alive(last.world)

\* C1: for every snapshot entity whose local id is in patch.ignore the call
\* creates no live record and adds no remap entry for that id, also when
\* patch.modify holds a PatchEntity with that id.
C1_IgnoredNeverCreated ==
  Called =>
    \A id \in SnapshotIds \cap patch.ignore :
      id \notin DOMAIN Before => id \notin DOMAIN After

\* C3: a second call with the same patch, the same prefab and the EntityMap
\* the first call left creates no live record and adds no remap entry; the
\* values are applied onto the same records, which end up as they were.
C3_SecondWriteInPlace ==
  (Called /\ last.again) =>
    /\ After = Before
    /\ Created = {}
    /\ last.st.world = last.world
    /\ world = last.st.world /\ maps[last.slot] = After

C3_Witness ==
  /\ Called /\ last.again /\ Returned("Ok")
  /\ Cardinality(DOMAIN After) >= 2
  /\ \E id \in DOMAIN After : DOMAIN Record(id) # {}

\* the patch entity the lookup map holds for a local id
Lookup == PatchMap(patch)
\* snapshot entities the first loop processes, and patch entities it leaves
Processed == SnapshotIds \ patch.ignore
Matched == Processed \cap DOMAIN Lookup
SnapshotEntity(id) ==
  prefab.entities[CHOOSE i \in DOMAIN prefab.entities : prefab.entities[i].entity = id]
\* snapshot values followed by the matching patch's append values
Effective(id) ==
  SnapshotEntity(id).components \o (IF id \in Matched THEN Lookup[id].append ELSE <<>>)
TypesOf(values) == {values[i].type : i \in DOMAIN values}
LastOfType(values, t) ==
  values[CHOOSE i \in DOMAIN values :
           values[i].type = t /\ \A j \in DOMAIN values : values[j].type = t => j <= i]

\* C7: on the record of a snapshot entity with a matching patch entity no
\* type of the patch's remove set is attached, whether the value is the
\* snapshot's or appended by the patch and whether or not the patch also
\* modifies the type; a modify path of a removed type is never evaluated, so
\* it cannot fail the call.
C7_RemoveWins ==
  Called =>
    /\ \A id \in Matched \cap DOMAIN After :
         \A t \in Lookup[id].remove : t \notin DOMAIN Record(id)
    /\ Returned("PatchContainsWrongPath") =>
         \E id \in Matched : DOMAIN Lookup[id].modify \ Lookup[id].remove # {}

C7_Witness ==
  /\ Returned("Ok") /\ Fresh
  /\ \E id \in Matched :
       /\ "Position" \in Lookup[id].remove
       /\ "Position" \in DOMAIN Lookup[id].modify
       /\ ~PathsResolve(Position(0, 0), Lookup[id].modify["Position"])
       /\ Lookup[id].append = <<Position(1, 1)>>
       /\ "Position" \in TypesOf(SnapshotEntity(id).components)
       /\ "Parent" \in DOMAIN Record(id)

\* C8: after a successful call every patch entity of the lookup map whose
\* local id no snapshot entity has is mapped to exactly one live record
\* (created by the call if the EntityMap had no entry, else the mapped one),
\* and that record carries exactly the values of the append list (entity
\* references rewritten); remove and modify of that patch entity do nothing.
C8_UnmatchedPatchEntity ==
  Returned("Ok") =>
    \A id \in DOMAIN Lookup \ SnapshotIds :
      /\ id \in DOMAIN After
      /\ After[id] \in Alive(last.st.world)
      /\ IF id \in DOMAIN Before THEN After[id] = Before[id]
         ELSE After[id] \in Created
      /\ DOMAIN Record(id) = TypesOf(Lookup[id].append)
      /\ \A k \in DOMAIN Lookup[id].append :
           LET v == Lookup[id].append[k]
           IN /\ DOMAIN Record(id)[v.type].fields = DOMAIN v.fields
              /\ \A f \in DOMAIN v.fields :
                   Record(id)[v.type].fields[f] =
                     IF f = "entity" /\ v.fields[f] \in DOMAIN After
                     THEN After[v.fields[f]] ELSE v.fields[f]

C8_Witness ==
  /\ Returned("Ok") /\ Fresh
  /\ \E id \in DOMAIN Lookup \ SnapshotIds :
       /\ Lookup[id].append = <<Position(1, 1)>>
       /\ Lookup[id].remove = {"Position"}
       /\ "Position" \in DOMAIN Lookup[id].modify
       /\ After[id] \in Created
       /\ Record(id) = [t \in {"Position"} |-> Position(1, 1)]

\* C9: after a successful call, for a snapshot entity whose matching patch
\* modifies a type (and does not remove it), the record carries the value of
\* that type with exactly the listed paths replaced by the override values
\* and every other field as in the value written.
C9_ModifyOverrides ==
  Returned("Ok") =>
    \A id \in Matched :
      \A t \in (DOMAIN Lookup[id].modify \ Lookup[id].remove) \cap TypesOf(Effective(id)) :
        LET src == LastOfType(Effective(id), t)
            got == Record(id)[t]
        IN /\ DOMAIN got.fields = DOMAIN src.fields
           /\ \A f \in DOMAIN src.fields :
                got.fields[f] = IF f \in DOMAIN Lookup[id].modify[t]
                                THEN Lookup[id].modify[t][f] ELSE src.fields[f]

\* the scenario of the specification: Position{x:0,y:0} with x overridden by 5
C9_Witness ==
  /\ Returned("Ok") /\ Fresh
  /\ \E id \in Matched :
       /\ Lookup[id].modify = ("Position" :> ("x" :> 5))
       /\ Lookup[id].remove = {} /\ Lookup[id].append = <<>>
       /\ Position(0, 0) \in {SnapshotEntity(id).components[i] :
                                i \in DOMAIN SnapshotEntity(id).components}
       /\ Record(id)["Position"] = Position(5, 0)

\* --- C10: the first failing value, found from the patch and the prefab alone
Removed(v, id) == id \in Matched /\ v.type \in Lookup[id].remove
BadPath(v, id) ==
  /\ id \in Matched /\ v.type \in DOMAIN Lookup[id].modify
  /\ \E path \in DOMAIN Lookup[id].modify[v.type] : path \notin DOMAIN v.fields
Unknown(v) == v.type \in {"Ghost", "Bare"}
\* a value of a snapshot entity fails; the error it fails with
Fails(v, id) == ~Removed(v, id) /\ (BadPath(v, id) \/ Unknown(v))
ErrorOf(v, id) ==
  IF BadPath(v, id) THEN Err("PatchContainsWrongPath", v.type)
  ELSE IF v.type = "Ghost" THEN Err("UnregisteredType", v.type)
  ELSE Err("UnregisteredComponent", v.type)
\* a value of an unmatched patch entity's append list fails
ErrorOfAppended(v) ==
  IF v.type = "Ghost" THEN Err("UnregisteredType", v.type)
  ELSE Err("UnregisteredComponent", v.type)

Min(S) == CHOOSE x \in S : \A y \in S : x <= y
IdAt(i) == prefab.entities[i].entity
FailingAt(values, id) == {k \in DOMAIN values : Fails(values[k], id)}
\* snapshot entities (by position) and unmatched patch entities (by position
\* in the iteration order) with a failing value
BadEntities ==
  {i \in DOMAIN prefab.entities : IdAt(i) \in Processed /\ FailingAt(Effective(IdAt(i)), IdAt(i)) # {}}
BadPatchEntities ==
  {m \in DOMAIN hash_order :
     \E k \in DOMAIN Lookup[hash_order[m]].append : Unknown(Lookup[hash_order[m]].append[k])}
\* types attached by the values before position j of an entity
AttachedBefore(values, id, j) ==
  {values[k].type : k \in {x \in DOMAIN values : x < j /\ ~Removed(values[x], id)}}
Complete(id) ==
  /\ id \in DOMAIN After /\ After[id] \in Created
  /\ DOMAIN Record(id) = AttachedBefore(Effective(id), id, Len(Effective(id)) + 1)

\* C10: a call on an empty EntityMap returns the error of the first failing
\* value at once.  The entities before the failing one are complete, the
\* failing entity keeps its record and the values attached before the
\* failure, nothing later is created or attached (no later value, snapshot
\* entity or patch entity), the rewrite pass does not run, and what was
\* produced is what the caller's world and EntityMap hold afterwards.
C10_FirstErrorStops ==
  Fresh =>
    /\ world = last.st.world /\ maps[last.slot] = After
    /\ Alive(last.world) \subseteq Alive(world)
    /\ Created = Values(After)
    /\ IF BadEntities # {}
       THEN LET i == Min(BadEntities)
                id == IdAt(i)
                j == Min(FailingAt(Effective(id), id))
            IN /\ last.st.err = ErrorOf(Effective(id)[j], id)
               /\ last.st.rewrites = <<>>
               /\ \A h \in 1..(i - 1) : IdAt(h) \in Processed => Complete(IdAt(h))
               /\ id \in DOMAIN After /\ After[id] \in Created
               /\ DOMAIN Record(id) = AttachedBefore(Effective(id), id, j)
               /\ DOMAIN After = {IdAt(h) : h \in 1..i} \cap Processed
       ELSE IF BadPatchEntities # {}
       THEN LET m == Min(BadPatchEntities)
                id == hash_order[m]
                k == Min({x \in DOMAIN Lookup[id].append : Unknown(Lookup[id].append[x])})
            IN /\ last.st.err = ErrorOfAppended(Lookup[id].append[k])
               /\ last.st.rewrites = <<>>
               /\ \A x \in Processed : Complete(x)
               /\ id \in DOMAIN After /\ After[id] \in Created
               /\ DOMAIN Record(id) = {Lookup[id].append[x].type : x \in 1..(k - 1)}
               /\ DOMAIN After = Processed \cup {hash_order[h] : h \in 1..m}
       ELSE Returned("Ok")

\* a failure in the second of two snapshot entities, after a value of that
\* entity was attached, with a patch entity left unprocessed
C10_Witness ==
  /\ Fresh /\ ~Returned("Ok")
  /\ BadEntities = {2}
  /\ Min(FailingAt(Effective(IdAt(2)), IdAt(2))) = 2
  /\ DOMAIN Lookup \ Processed # {}
  /\ IdAt(1) \in DOMAIN After
  /\ "Parent" \in DOMAIN Record(IdAt(1))
  /\ Cardinality(Created) = 2

\* a failure in the second of two unmatched patch entities
C10_WitnessPatch ==
  /\ Fresh /\ ~Returned("Ok")
  /\ BadEntities = {} /\ BadPatchEntities = {2}
  /\ Cardinality(Created) >= 2

\* ============================================================ properties
\* of the spawner (Spec)
is_ready(id) == id \in DOMAIN instances
\* PrefabSpawner::info, an Option: <<>> or <<the instance's table>>
info(id) == IF id \in DOMAIN instances THEN <<instances[id]>> ELSE <<>>
Requests(queue) == {queue[i] : i \in DOMAIN queue}
Occurrences(ids, id) == Cardinality({i \in DOMAIN ids : ids[i] = id})
\* a write of this prefab with the default patch returns Ok
Writable(pf) ==
  \A i \in DOMAIN pf.entities :
    \A k \in DOMAIN pf.entities[i].components :
      ~Unknown(pf.entities[i].components[k])

\* C2: an id whose spawn and despawn were requested between the same two
\* passes, and which the next pass spawned, is despawned by the pass after
\* that one (race[id] counts the passes since the two requests).
C2_DespawnNotLost ==
  \A id \in DOMAIN race : race[id] = 2 => ~is_ready(id)

\* C4: once the despawn of a spawned instance has been processed (by a pass
\* or by despawn_sync), in every later state the instance is in no
\* `instances` entry (info(id) is None, is_ready(id) is false) and every
\* record its EntityMap held is destroyed.
C4_DespawnedStaysGone ==
  \A id \in DOMAIN gone :
    /\ ~is_ready(id)
    /\ gone[id] \cap Alive(world) = {}

\* a despawned instance of two records, with another instance spawned later
C4_Witness ==
  \E id \in DOMAIN gone :
    /\ Cardinality(gone[id]) = 2
    /\ \E other \in DOMAIN instances : other > id /\ instances[other] # EmptyMap

\* C5: in every pass, a request whose handle does not resolve stays in
\* to_spawn, gets no instance and creates no record; a request whose handle
\* resolves to a writable prefab leaves to_spawn and has exactly one instance:
\* one entry of its id in the bucket of its handle, mapped to records the
\* pass created, one per prefab entity.
C5_PendingUntilResolved ==
  [][Maintain =>
       /\ \A r \in Requests(to_spawn) :
            IF assets[r.handle] = <<>>
            THEN /\ r \in Requests(to_spawn')
                 /\ r.id \notin DOMAIN instances'
            ELSE Writable(assets[r.handle][1]) =>
                   /\ r \notin Requests(to_spawn')
                   /\ r.id \in DOMAIN instances'
                   /\ Occurrences(prefabs'[r.handle], r.id) = 1
                   /\ Values(instances'[r.id]) \subseteq Alive(world') \ Alive(world)
                   /\ Cardinality(Values(instances'[r.id])) =
                        Len(assets[r.handle][1].entities)
       /\ \A i \in DOMAIN pass_log' :
            ~pass_log'[i].resolved => pass_log'[i].created = {}
       /\ ((\A r \in Requests(to_spawn) : assets[r.handle] = <<>>)
             /\ updates = <<>> /\ reader = Len(events))
            => Alive(world') \subseteq Alive(world)
  ]_vars

\* a request that a pass kept pending and a later pass spawned
C5_Witness ==
  \E id \in retained : is_ready(id) /\ Cardinality(Values(instances[id])) = 2

\* C6: the EntityMaps of two instances share no live record, and neither do
\* the two EntityMaps of direct calls.
C6_NoAliasing ==
  /\ \A i, j \in DOMAIN instances :
       i # j => Values(instances[i]) \cap Values(instances[j]) = {}
  /\ Values(maps[1]) \cap Values(maps[2]) = {}

\* two live instances of the same prefab handle
C6_Witness ==
  \E h \in DOMAIN prefabs : \E i, j \in DOMAIN instances :
    /\ i # j
    /\ Occurrences(prefabs[h], i) = 1 /\ Occurrences(prefabs[h], j) = 1
    /\ Cardinality(Values(instances[i])) = 2
    /\ Cardinality(Values(instances[j])) = 2

\* two direct calls with the same prefab and two maps
C6_WitnessWrite ==
  /\ called = {1, 2} /\ Returned("Ok")
  /\ Cardinality(Values(maps[1])) >= 2 /\ Cardinality(Values(maps[2])) >= 2

\* ids of the requests of a queue, in order
QueuedIds(queue) == [i \in DOMAIN queue |-> queue[i].id]
InBuckets(pfs, id) == {h \in DOMAIN pfs : Occurrences(pfs[h], id) > 0}

\* C11: a pass attempts every request of to_spawn, in order.  A request that
\* fails with NonExistentPrefab stays in to_spawn; one that fails with any
\* other error leaves to_spawn and gets no entry in instances or prefabs.  A
\* generated id that is not in to_spawn never enters it again (no retry).
C11_OnlyMissingPrefabRetried ==
  [][/\ Maintain =>
          /\ QueuedIds(pass_log') = QueuedIds(to_spawn)
          /\ \A i \in DOMAIN to_spawn :
               LET r == to_spawn[i]
                   e == pass_log'[i].err
               IN /\ pass_log'[i].handle = r.handle
                  /\ e.kind = "NonExistentPrefab" <=> r \in Requests(to_spawn')
                  /\ e.kind \notin {"Ok", "NonExistentPrefab"} =>
                       /\ r.id \notin DOMAIN instances'
                       /\ InBuckets(prefabs', r.id) = {}
                  /\ e.kind = "Ok" => r.id \in DOMAIN instances'
          /\ Requests(to_spawn') \subseteq Requests(to_spawn)
     /\ \A id \in 1..(next_id - 1) :
          id \notin Requests(QueuedIds(to_spawn)) =>
            id \notin Requests(QueuedIds(to_spawn'))
  ]_vars

\* a pass whose first request failed for good and whose second was spawned
C11_Witness ==
  /\ Len(pass_log) = 2
  /\ pass_log[1].err.kind = "UnregisteredType"
  /\ pass_log[2].err = Ok
  /\ ~is_ready(pass_log[1].id) /\ is_ready(pass_log[2].id)
  /\ to_spawn = <<>>

\* C12: a failing update write does not abort the pass: the pass completes
\* (no panic), and its parent-attachment step has run, so no with_parent
\* entry of a spawned instance is left.
C12_UpdateFailureIsLocal ==
  [][Maintain =>
       /\ ~crashed'
       /\ \A i \in DOMAIN with_parent' : with_parent'[i].id \notin DOMAIN instances'
  ]_vars

\* the instances the update steps of the step just taken wrote
Updated(log) == UNION {Requests(log[i].ids) : i \in DOMAIN log}

\* C13: an update write is never run on an instance that has been despawned:
\* not on one whose despawn this pass processed, not on one despawned before.
\* An instance the pass spawned is seen by the update steps of the same pass
\* (spawns come before updates).
C13_NoUpdateAfterDespawn ==
  [][/\ \A id \in Updated(update_log') :
          /\ id \notin DOMAIN gone'
          /\ id \in DOMAIN instances'
          /\ id \in DOMAIN instances \cup Requests(QueuedIds(to_spawn))
     /\ Maintain =>
          /\ Updated(update_log') \cap Requests(to_despawn) \cap DOMAIN instances = {}
          /\ ~crashed' =>
               \A i \in DOMAIN pass_log', j \in DOMAIN update_log' :
                 (pass_log'[i].err = Ok /\ update_log'[j].handle = pass_log'[i].handle)
                   => pass_log'[i].id \in Requests(update_log'[j].ids)
  ]_vars

\* a pass that despawned one instance of a handle and updated the other one
C13_Witness ==
  /\ Len(update_log) = 1 /\ Len(update_log[1].ids) = 1
  /\ \E id \in DOMAIN gone :
       /\ Occurrences(prefabs[update_log[1].handle], id) = 1
       /\ id \notin Updated(update_log)
       /\ to_despawn = <<>> /\ reader = 1

\* C14: every id of `instances` is in exactly one bucket of `prefabs`, once:
\* the bucket of the handle it was spawned from (the handle of its request, or
\* the handle given to spawn_sync), and it stays there while the instance
\* exists.
C14_OneBucketPerInstance ==
  [][/\ \A id \in DOMAIN instances' :
          /\ Cardinality(InBuckets(prefabs', id)) = 1
          /\ \A h \in InBuckets(prefabs', id) : Occurrences(prefabs'[h], id) = 1
          /\ id \in DOMAIN instances => InBuckets(prefabs', id) = InBuckets(prefabs, id)
     /\ Maintain =>
          \A i \in DOMAIN to_spawn :
            to_spawn[i].id \in DOMAIN instances' =>
              InBuckets(prefabs', to_spawn[i].id) = {to_spawn[i].handle}
     /\ \A h \in Handles :
          SpawnSync(h) =>
            \A id \in DOMAIN instances' \ DOMAIN instances : InBuckets(prefabs', id) = {h}
  ]_vars

\* an instance per handle, one spawned by a pass and one by spawn_sync
C14_Witness ==
  /\ DOMAIN instances = {1, 2}
  /\ InBuckets(prefabs, 1) # InBuckets(prefabs, 2)
  /\ syncs = 1 /\ sync_result.err = Ok
  /\ retained # {}

\* C15: the EntityMap of an instance only grows: across every write (the
\* first one and every hot update, also after the prefab changed and also
\* for a prefab that lists a local id twice) each entry stays and keeps its
\* live identity, as long as the instance exists.
C15_RemapOnlyGrows ==
  [][/\ \A s \in Slots : \A k \in DOMAIN maps[s] :
          k \in DOMAIN maps'[s] /\ maps'[s][k] = maps[s][k]
     /\ \A id \in DOMAIN instances \cap DOMAIN instances' :
          \A k \in DOMAIN instances[id] :
            k \in DOMAIN instances'[id] /\ instances'[id][k] = instances[id][k]
  ]_vars

\* a hot update after a reload: the new prefab lists local id 1 twice, the
\* table had entries and gains the one for id 1, and both listings went to
\* the one record created for it
C15_Witness ==
  /\ Called /\ last.again /\ Returned("Ok")
  /\ prefab \in DupPrefabs
  /\ Before # EmptyMap
  /\ DOMAIN After \ DOMAIN Before = {1}
  /\ Cardinality(Created) = 1
  /\ Record(1)["Position"] = Position(1, 1)

\* values of an entity that the call attaches: the effective values of a
\* processed snapshot entity that its patch does not remove, or the append
\* list of a patch entity left over by the first loop
Leftover == DOMAIN Lookup \ Processed
Attached(id) ==
  IF id \in Processed
  THEN SelectSeq(Effective(id), LAMBDA v : ~Removed(v, id))
  ELSE Lookup[id].append
\* reference-bearing types among the attached values of the call
RefTypes ==
  {t \in TypeNames :
     /\ TypeRegistry[t].map_entities
     /\ \E id \in Processed \cup Leftover : t \in TypesOf(Attached(id))}
Rewrites == last.st.rewrites
RewrittenTypes == {Rewrites[i].type : i \in DOMAIN Rewrites}
GenericTypes == {t \in TypeNames : ~TypeRegistry[t].prefab_component}

\* what C16 states for the reference-bearing types in Types: after a
\* successful call each was rewritten by exactly one invocation, no
\* invocation was followed by a record creation, each saw a table with an
\* entry for every processed snapshot id and every patch-entity id, and a
\* Parent reference of an entity of Ids to a local id of the table, wherever
\* in the snapshot that id is listed, holds the live identity of that id.
RewriteAfterWrites(Types, Ids) ==
  Returned("Ok") =>
    /\ \A t \in RefTypes \cap Types :
         Cardinality({i \in DOMAIN Rewrites : Rewrites[i].type = t}) = 1
    /\ \A i \in DOMAIN Rewrites :
         /\ Rewrites[i].alive = Alive(last.st.world)
         /\ Rewrites[i].entity_map = After
         /\ Processed \cup DOMAIN Lookup \subseteq DOMAIN Rewrites[i].entity_map
    /\ \A id \in Ids :
         ("Parent" \in TypesOf(Attached(id)) /\ "Parent" \in Types) =>
           LET ref == LastOfType(Attached(id), "Parent").fields.entity
           IN ref \in DOMAIN After => Record(id)["Parent"].fields.entity = After[ref]

\* C16: the rewrite pass of a successful call comes after every creation and
\* apply, invokes every reference-bearing type that appeared in the call
\* exactly once, and sees a complete table, so forward references resolve.
C16_RewriteAfterWrites == RewriteAfterWrites(TypeNames, Processed \cup Leftover)

\* records that no rewrite invocation was handed more than once
ListedOnce ==
  {id \in Processed \cup Leftover :
     \A i \in DOMAIN Rewrites : Occurrences(Rewrites[i].entities, After[id]) <= 1}

\* the same for the types attached by apply_or_insert and the records each
\* invocation was handed once
C16_GenericRewriteAfterWrites == RewriteAfterWrites(GenericTypes, ListedOnce)

\* a forward reference: the first snapshot entity refers to the second one
C16_WitnessForward ==
  /\ Returned("Ok") /\ Fresh
  /\ Len(prefab.entities) = 2
  /\ IdAt(1) \in Processed /\ IdAt(2) \in Processed
  /\ "Parent" \in TypesOf(Attached(IdAt(1)))
  /\ LastOfType(Attached(IdAt(1)), "Parent").fields.entity = IdAt(2)
  /\ Record(IdAt(1))["Parent"].fields.entity = After[IdAt(2)]
  /\ After[IdAt(2)] # IdAt(2)

\* the live records handed to the rewrite function of type t
Rewritten(t) ==
  UNION {{Rewrites[i].entities[j] : j \in DOMAIN Rewrites[i].entities} :
           i \in {k \in DOMAIN Rewrites : Rewrites[k].type = t}}
\* the live records the side table lists for type t
Tracked(t) ==
  IF t \in DOMAIN last.st.scene_mappings
  THEN {last.st.scene_mappings[t][j] : j \in DOMAIN last.st.scene_mappings[t]}
  ELSE {}

\* what C17 states for the types in Types: after a successful call, every
\* value attached to a live record whose type is reference-bearing has its
\* (type, live record) pair in the side table, and the rewrite function of the
\* type was handed that live record.
AttachedIsTracked(Types) ==
  Returned("Ok") =>
    \A id \in Processed \cup Leftover :
      \A t \in TypesOf(Attached(id)) \cap Types :
        TypeRegistry[t].map_entities =>
          /\ After[id] \in Tracked(t)
          /\ After[id] \in Rewritten(t)

\* C17: every attached value of a reference-bearing type is recorded and its
\* live record is handed to the rewrite function, whether the value went
\* through the custom-insert function or through apply_or_insert.
C17_AttachedIsTracked == AttachedIsTracked(TypeNames)

\* the same for the types attached by apply_or_insert only
C17_GenericAttachedIsTracked == AttachedIsTracked(GenericTypes)

\* the record e has a Parent in world w, and it is p
HasParent(w, e, p) ==
  /\ e \in Alive(w)
  /\ "Parent" \in DOMAIN w.ents[e]
  /\ w.ents[e]["Parent"].fields.entity = p
\* the records spawn is given as parents
RequestedParents == Alive(BaseWorld)
\* the handle an id was queued with
QueuedHandle(queue, id) ==
  queue[CHOOSE i \in DOMAIN queue : queue[i].id = id].handle
\* the Parent the snapshot pf gives the entity listed under local id l and
\* written through the table map, if it gives one; else the parent asked for
ParentAfterSpawn(pf, map, l, parent) ==
  LET listed == {i \in DOMAIN pf.entities :
                   /\ pf.entities[i].entity = l
                   /\ "Parent" \in TypesOf(pf.entities[i].components)}
  IN IF listed = {} THEN parent
     ELSE map[LastOfType(pf.entities[CHOOSE i \in listed : TRUE].components,
                         "Parent").fields.entity]

Unread == SubSeq(events, reader + 1, Len(events))
\* the handles of the Modified events among evs whose handle has a bucket
ModifiedTracked(evs) ==
  LET sel == SelectSeq(evs, LAMBDA ev : ev.kind = "Modified"
                                        /\ ev.handle \in DOMAIN prefabs)
  IN [j \in DOMAIN sel |-> sel[j].handle]
\* the handles of the update steps of a log, in order
UpdatedHandles(log) == [j \in DOMAIN log |-> log[j].handle]
IsPrefix(s, t) == Len(s) <= Len(t) /\ s = SubSeq(t, 1, Len(s))

C19_SkippedByPanic ==
  crashed /\ Len(update_log) = 1 /\ reader = Len(events)
  /\ \E i, j \in DOMAIN events :
       /\ i < j
       /\ events[i].kind = "Modified" /\ events[j].kind = "Modified"
       /\ events[i].handle # events[j].handle
       /\ {events[i].handle, events[j].handle} \subseteq DOMAIN prefabs
       /\ \A h \in {events[i].handle, events[j].handle} :
            \E k \in DOMAIN prefabs[h] : prefabs[h][k] \in DOMAIN instances

\* C20: spawn and despawn only append to the queues and leave the world,
\* `instances` and `prefabs` as they are.  An id of to_spawn is not ready and
\* has no info; it becomes ready in a pass only.  An instance whose despawn
\* is queued stays ready, with the records it has, through every step that
\* is neither a pass nor a despawn_sync.
C20_AsyncOnlyQueues ==
  [][/\ \A h \in Handles, parent \in {<<>>, <<0>>} :
          Spawn(h, parent) =>
            /\ world' = world /\ instances' = instances /\ prefabs' = prefabs
            /\ to_spawn' = Append(to_spawn, [handle |-> h, id |-> next_id])
            /\ with_parent' = with_parent \o
                 [i \in DOMAIN parent |-> [id |-> next_id, parent |-> parent[i]]]
            /\ to_despawn' = to_despawn
            /\ ~is_ready(next_id)' /\ info(next_id)' = <<>>
     /\ \A id \in 1..MaxIds :
          RequestDespawn(id) =>
            /\ world' = world /\ instances' = instances /\ prefabs' = prefabs
            /\ to_despawn' = Append(to_despawn, id)
            /\ to_spawn' = to_spawn /\ with_parent' = with_parent
     /\ \A id \in Requests(QueuedIds(to_spawn)) :
          /\ ~is_ready(id) /\ info(id) = <<>>
          /\ is_ready(id)' => Maintain
     /\ \A id \in Requests(to_despawn) :
          (is_ready(id) /\ ~Maintain /\ ~DespawnSync(id)) =>
             /\ is_ready(id)'
             /\ DOMAIN instances[id] \subseteq DOMAIN instances'[id]
             /\ Values(instances[id]) \cap Alive(world) \subseteq Alive(world')
  ]_vars

\* a spawn is queued and not ready, and an instance whose despawn is queued
\* is ready with its records alive
C20_Witness ==
  /\ to_spawn # <<>>
  /\ \A id \in Requests(QueuedIds(to_spawn)) : ~is_ready(id) /\ info(id) = <<>>
  /\ \E id \in Requests(to_despawn) :
       /\ is_ready(id)
       /\ instances[id] # EmptyMap
       /\ Values(instances[id]) \subseteq Alive(world)

\* the queues of the spawner
Queues == <<to_spawn, to_despawn, with_parent, updates>>
\* the map f without the key k
Without(f, k) == [x \in DOMAIN f \ {k} |-> f[x]]
\* the bucket of a handle, empty when the handle has none
Bucket(pfs, h) == IF h \in DOMAIN pfs THEN pfs[h] ELSE <<>>

\* C21: spawn_sync leaves the queues as they are.  When it returns an id, the
\* id is new, it is a key of `instances`, it has been pushed once onto the
\* bucket of its handle, and the other instances and buckets are unchanged.
\* When it returns an error (NonExistentPrefab when the asset is not loaded),
\* `instances` and `prefabs` are unchanged.  despawn_sync of an id that is not
\* a key of `instances` changes nothing.
C21_SyncAppliesAtOnce ==
  [][/\ \A h \in Handles :
          SpawnSync(h) =>
            /\ Queues' = Queues
            /\ assets[h] = <<>> => sync_result'.err.kind = "NonExistentPrefab"
            /\ IF sync_result'.err = Ok
               THEN /\ sync_result'.id \notin DOMAIN instances
                    /\ sync_result'.id \notin Requests(QueuedIds(to_spawn))
                    /\ sync_result'.id \in DOMAIN instances'
                    /\ Without(instances', sync_result'.id) = instances
                    /\ Bucket(prefabs', h) = Append(Bucket(prefabs, h), sync_result'.id)
                    /\ \A g \in Handles \ {h} : Bucket(prefabs', g) = Bucket(prefabs, g)
               ELSE /\ instances' = instances
                    /\ prefabs' = prefabs
     /\ \A id \in 1..MaxIds :
          (DespawnSync(id) /\ ~is_ready(id)) =>
            /\ world' = world /\ instances' = instances /\ prefabs' = prefabs
            /\ Queues' = Queues
  ]_vars

\* spawn_sync has returned an id while a request was queued
C21_Witness ==
  /\ syncs = 1 /\ sync_result.err = Ok
  /\ is_ready(sync_result.id)
  /\ \E h \in DOMAIN prefabs : Occurrences(prefabs[h], sync_result.id) = 1
  /\ to_spawn # <<>> /\ sync_result.id \notin Requests(QueuedIds(to_spawn))

\* spawn_sync has returned a write error and left records behind
C21_WitnessError ==
  /\ syncs = 1 /\ sync_result.err.kind \notin {"Ok", "NonExistentPrefab"}
  /\ instances = EmptyMap /\ prefabs = EmptyMap
  /\ Alive(world) # Alive(BaseWorld)

\* ============================================================ properties
\* of the builder (SpecBuild)
RECURSIVE Flatten(_)
Flatten(seqs) == IF seqs = <<>> THEN <<>> ELSE Head(seqs) \o Flatten(Tail(seqs))
\* the entities the extract calls were handed so far, in order
Passed == Flatten(passed)
\* the entries of the built prefab for the entity e
BuiltFor(e) == {i \in DOMAIN built[1].entities : built[1].entities[i].entity = e}

\* C22: an entry of the builder, once captured, is never changed by a later
\* extract call, and the built prefab has for every extracted entity exactly
\* one entry, the one captured first.
C22_FirstCaptureWins ==
  [][/\ \A e \in DOMAIN builder.entities :
          /\ e \in DOMAIN builder'.entities
          /\ builder'.entities[e] = builder.entities[e]
     /\ built' # <<>> =>
          \A e \in DOMAIN builder.entities :
            /\ Cardinality(BuiltFor(e)') = 1
            /\ \A i \in BuiltFor(e)' : built'[1].entities[i] = builder.entities[e]
  ]_vars

\* a prefab was built after an entity with reflected values had been handed
\* to extract in two different calls
C22_Witness ==
  /\ built # <<>>
  /\ \E i, j \in DOMAIN passed, e \in DOMAIN builder.entities :
       /\ i < j
       /\ \E k \in DOMAIN passed[i] : passed[i][k] = e
       /\ \E k \in DOMAIN passed[j] : passed[j][k] = e
       /\ builder.entities[e].components # <<>>
       /\ Cardinality(BuiltFor(e)) = 1

Elements(s) == {s[i] : i \in DOMAIN s}
\* the types attached to the record e that the registry can reflect
Capturable(e) ==
  {t \in DOMAIN world.ents[e] : TypeRegistry[t].registered /\ TypeRegistry[t].component}
\* where a type stands in the order of the components of a record
Rank(t) == CHOOSE k \in DOMAIN ComponentOrder : ComponentOrder[k] = t

\* C23: the built prefab has one entity per distinct record handed to
\* extract and no other; its local id is the record's index; its values are
\* the values attached to the record whose type is registered with
\* ReflectComponent, once each, in the order of the record's components.
C23_BuiltIsExtracted ==
  built # <<>> =>
    /\ {built[1].entities[i].entity : i \in DOMAIN built[1].entities} = Elements(Passed)
    /\ Len(built[1].entities) = Cardinality(Elements(Passed))
    /\ \A i \in DOMAIN built[1].entities :
         LET e == built[1].entities[i].entity
             c == built[1].entities[i].components
         IN /\ e \in Alive(world)
            /\ {c[k].type : k \in DOMAIN c} = Capturable(e)
            /\ \A k \in DOMAIN c : c[k] = world.ents[e][c[k].type]
            /\ \A k, l \in DOMAIN c : k < l => Rank(c[k].type) < Rank(c[l].type)

\* a prefab built from two of three records: one with an unregistered
\* component only, one with two reflected components
C23_Witness ==
  /\ built # <<>> /\ Len(built[1].entities) = 2
  /\ Alive(world) \ Elements(Passed) # {}
  /\ \E i, j \in DOMAIN built[1].entities :
       /\ "Ghost" \in DOMAIN world.ents[built[1].entities[i].entity]
       /\ built[1].entities[i].components = <<>>
       /\ Len(built[1].entities[j].components) = 2

\* the distinct elements of s in the order of their first occurrence
RECURSIVE FirstOccurrences(_)
FirstOccurrences(s) ==
  IF s = <<>> THEN <<>>
  ELSE Then(FirstOccurrences(SubSeq(s, 1, Len(s) - 1)), LAMBDA d :
         IF s[Len(s)] \in Elements(d) THEN d ELSE Append(d, s[Len(s)]))
\* the local ids of the built prefab, in order
BuiltIds == [i \in DOMAIN built[1].entities |-> built[1].entities[i].entity]

\* C24 as stated: the entities of the built prefab are in the order in which
\* the records were first handed to extract.
C24_InsertionOrder ==
  built # <<>> => BuiltIds = FirstOccurrences(Passed)

\* C24, amended: the entities of the built prefab are the records handed to
\* extract, each once, in some order.
C24_SomeOrder ==
  built # <<>> =>
    /\ Elements(BuiltIds) = Elements(FirstOccurrences(Passed))
    /\ Len(BuiltIds) = Len(FirstOccurrences(Passed))

\* a prefab was built whose entities are not in the order of their first
\* extraction
C24_Witness ==
  /\ built # <<>> /\ Len(BuiltIds) >= 2
  /\ BuiltIds # FirstOccurrences(Passed)

\* ============================================================ properties
\* of the codec (SpecCodec)
\* every value of the prefab has a type with a registration
AllRegistered(pf) ==
  \A i \in DOMAIN pf.entities :
    \A j \in DOMAIN pf.entities[i].components :
      TypeRegistry[pf.entities[i].components[j].type].registered
\* same local ids in the same order and, per entity, values of the same type
\* with equal fields in the same order
SameSnapshot(p, q) ==
  /\ Len(p.entities) = Len(q.entities)
  /\ \A i \in DOMAIN p.entities :
       /\ p.entities[i].entity = q.entities[i].entity
       /\ Len(p.entities[i].components) = Len(q.entities[i].components)
       /\ \A j \in DOMAIN p.entities[i].components :
            /\ p.entities[i].components[j].type = q.entities[i].components[j].type
            /\ p.entities[i].components[j].fields = q.entities[i].components[j].fields

\* C25: deserializing the text serialize_ron wrote for a prefab whose types
\* are all registered succeeds and returns a prefab with the same entities and
\* values, in the same order.
C25_RoundTrip ==
  (decoded # <<>> /\ document = <<serialize_ron(snapshot)>> /\ AllRegistered(snapshot)) =>
     /\ decoded[1].err = Ok
     /\ decoded[1].prefab # <<>>
     /\ SameSnapshot(decoded[1].prefab[1], snapshot)

\* the text of a prefab of two entities, one with two values, went through
\* serialize_ron and deserialize_ron
C25_Witness ==
  /\ decoded # <<>> /\ document = <<serialize_ron(snapshot)>>
  /\ decoded[1].err = Ok
  /\ Len(snapshot.entities) = 2
  /\ Len(snapshot.entities[1].components) = 2
  /\ snapshot.entities[1].components # snapshot.entities[2].components

\* the type names of a text, in the order they are read
TypeNamesRead(doc) ==
  Flatten([i \in DOMAIN doc |-> [j \in DOMAIN doc[i].value |-> doc[i].value[j].key]])
UnknownRead(doc) ==
  {k \in DOMAIN TypeNamesRead(doc) : ~TypeRegistry[TypeNamesRead(doc)[k]].registered}
FirstUnknownRead(doc) ==
  TypeNamesRead(doc)[CHOOSE k \in UnknownRead(doc) : \A l \in UnknownRead(doc) : k <= l]

\* C26: deserializing a text in which some entity has a type name without
\* registration returns the error that names the type (the first such one
\* read) and no prefab, whatever comes before it in the text.
C26_UnknownTypeFails ==
  (decoded # <<>> /\ UnknownRead(document[1]) # {}) =>
     /\ decoded[1].err = Err("NoRegistration", FirstUnknownRead(document[1]))
     /\ decoded[1].prefab = <<>>

\* a text whose first entity is fine and whose second one names the unknown
\* type after a registered one was deserialized, with an error
C26_Witness ==
  /\ decoded # <<>> /\ decoded[1].err.kind = "NoRegistration" /\ decoded[1].prefab = <<>>
  /\ Len(document[1]) = 2
  /\ \A j \in DOMAIN document[1][1].value : TypeRegistry[document[1][1].value[j].key].registered
  /\ Len(document[1][2].value) = 2
  /\ TypeRegistry[document[1][2].value[1].key].registered
  /\ ~TypeRegistry[document[1][2].value[2].key].registered

\* ============================================================ properties
\* of the roots (SpecRoot)
\* the instances requested for the root whose records are in the world
LiveForRoot ==
  {id \in DOMAIN instances : Values(instances[id]) \cap Alive(world) # {}}

\* the system asks for a new instance with the root as parent and, when the
\* root had a PrefabInstance, for the despawn of that one
C27_SystemRequests ==
  [][\A h \in Handles :
       prefab_update_system(h) =>
         /\ to_spawn' = Append(to_spawn, [handle |-> h, id |-> next_id])
         /\ with_parent' = Append(with_parent, [id |-> next_id, parent |-> Root])
         /\ to_despawn' = to_despawn \o InstanceOf(world, Root)
         /\ InstanceOf(world', Root) = <<next_id>>
         /\ instances' = instances
  ]_vars

\* C27: once every request has been served (to_spawn and to_despawn are
\* empty), at most one instance spawned for the root is live.
C27_OneInstancePerRoot ==
  (~crashed /\ to_spawn = <<>> /\ to_despawn = <<>>) =>
     Cardinality(LiveForRoot) <= 1

\* the handle of the root was changed while its instance was spawned, and the
\* passes left the new instance only
C27_WitnessReplaced ==
  /\ ~crashed /\ to_spawn = <<>> /\ to_despawn = <<>> /\ next_id = 3
  /\ DOMAIN instances = {2} /\ 1 \in DOMAIN gone
  /\ InstanceOf(world, Root) = <<2>>

\* the old instance was pending on an asset that was not loaded when the
\* handle of the root changed; it was spawned after the asset arrived, beside
\* the new one
C27_PendingOldSpawned ==
  /\ ~crashed /\ to_spawn = <<>> /\ to_despawn = <<>>
  /\ 1 \in retained /\ reader = 1
  /\ DOMAIN instances = {1, 2}
  /\ \A id \in {1, 2} : \E e \in Values(instances[id]) : HasParent(world, e, Root)
  /\ InstanceOf(world, Root) = <<2>>

\* ============================================================ properties
\* of the spawner (Spec), continued
\* C28: after every pass that runs to its end, every id of with_parent is
\* the id of a request that is still in to_spawn.
C28_ParentEntryHasRequest ==
  [][(Maintain /\ ~crashed') =>
       \A i \in DOMAIN with_parent' :
         with_parent'[i].id \in Requests(QueuedIds(to_spawn'))
  ]_vars

\* the same for the entries whose request the pass did not drop on a write
\* error
C28_RetriedEntryHasRequest ==
  [][(Maintain /\ ~crashed') =>
       \A i \in DOMAIN with_parent' :
         (\A j \in DOMAIN pass_log' :
            pass_log'[j].id = with_parent'[i].id
              => pass_log'[j].err.kind \in {"Ok", "NonExistentPrefab"})
         => \/ with_parent'[i].id \in Requests(QueuedIds(to_spawn'))
            \/ with_parent'[i].id \notin Requests(QueuedIds(to_spawn))
  ]_vars

\* the live records, other than those of the world before the spawner ran,
\* that no table of `instances` maps
Orphans(w, inst) ==
  Alive(w) \ (Alive(BaseWorld) \cup UNION {Values(inst[id]) : id \in DOMAIN inst})

\* C29: every live record created by a write of the spawner is a value of the
\* table of some instance.
C29_NoOrphanRecords ==
  ~crashed => Orphans(world, instances) = {}

\* the records a step orphans were created in that step by a write that
\* returned an error: a dropped request of a pass, a failed spawn_sync, or
\* the update that panicked
C29_OrphansComeFromFailedWrites ==
  [][LET new == Orphans(world', instances') \ Orphans(world, instances)
         failed == UNION {pass_log'[j].created :
                            j \in {k \in DOMAIN pass_log' : pass_log'[k].err # Ok}}
     IN \/ new \subseteq failed
        \/ sync_result' # sync_result /\ sync_result'.err # Ok
             /\ new \subseteq Alive(world') \ Alive(world)
        \/ crashed' /\ new \subseteq Alive(world') \ Alive(world)
  ]_vars

\* a pass dropped a request whose write had failed, and the records of the
\* partial write are live and in no table
C29_DroppedRequestLeftRecords ==
  /\ ~crashed /\ to_spawn = <<>> /\ instances = EmptyMap
  /\ \E j \in DOMAIN pass_log :
       /\ pass_log[j].err.kind \notin {"Ok", "NonExistentPrefab"}
       /\ pass_log[j].created # {}
       /\ pass_log[j].created \subseteq Orphans(world, instances)

\* C30: every id listed in a bucket of `prefabs` is a key of `instances`.
C30_BucketsListInstances ==
  \A h \in DOMAIN prefabs :
    \A i \in DOMAIN prefabs[h] : prefabs[h][i] \in DOMAIN instances

\* every id listed in a bucket is or was a key of `instances`: it is one, or
\* the instance has been despawned
C30_BucketsListSpawned ==
  \A h \in DOMAIN prefabs :
    \A i \in DOMAIN prefabs[h] : prefabs[h][i] \in DOMAIN instances \cup DOMAIN gone

\* a pass ran an update step for a handle whose instances had all been
\* despawned before; the step wrote no instance
C30_StaleHandleUpdated ==
  /\ ~crashed /\ reader = 1 /\ instances = EmptyMap
  /\ Len(update_log) = 1 /\ update_log[1].ids = <<>>
  /\ events[1].kind = "Modified"
  /\ update_log[1].handle \in DOMAIN prefabs
  /\ prefabs[update_log[1].handle] # <<>>

====
